---- MODULE Spec2Model ----
(***************************************************************************)
(* Chat Hub memory proxy (ChatHubProxyService) in its two revisions:       *)
(*   - the parent-message scheme (chat-hub-proxy.service.ts): memory       *)
(*     entries are keyed by the id of the human chat message;              *)
(*   - the turn scheme (the later revision): memory entries are keyed by   *)
(*     a turn id minted before the execution.                              *)
(* The chat-message log, the memory table and the session table are the    *)
(* three repositories the service talks to.  The history utilities         *)
(* (buildMessageHistory, extractTurnIds, extractHumanMessageIds) and the   *)
(* repositories are modelled from their documented contracts.              *)
(***************************************************************************)
EXTENDS Integers, Sequences, FiniteSets, TLC

\* `string | null`: the absent id.
NULL == 0

\* The empty string given for an id.
EMPTY == -1

\* ---------------------------------------------------------------- bounds
MaxMsgs == 4        \* chat messages in the log, parent-message scheme alone
MaxGraphMsgs == 3   \* chat messages in the log, both schemes
MaxCycleMsgs == 2   \* chat messages in the log, corrupted-log runs
MaxStoreMsgs == 1   \* chat messages in the log, memory-table runs
MaxMem == 2         \* memory entries ever appended (uuid counter cap)

SessionIds == {1, 2}
NodeIds == {1, 2}
OwnerIds == {1, 2}
TurnIds == {1, 2}
TimeStamps == {1, 2}
Roles == {"human", "ai"}
HandleIds == {1, 2}
NodeTypes == {"memoryChatHub", "agent"}

CHAT_HUB_MEMORY_TYPE == "memoryChatHub"
ALLOWED_NODES == {CHAT_HUB_MEMORY_TYPE}
NAME_FALLBACK == "Workflow Chat"

VARIABLES
    messages,   \* chat-message table: sequence of rows, insertion order
    memory,     \* memory table: sequence of entries, creation order
    sessions,   \* session table: sequence of rows
    handles,    \* handle slot -> closure state of makeChatHubOperations
    pc,         \* handle slot -> position of an in-flight ensureSession
    last,       \* what the last completed operation did and returned
    uuidCtr,    \* uuid(): number of ids minted so far
    cleared     \* (session, node) pairs cleared with no append since

vars == <<messages, memory, sessions, handles, pc, last, uuidCtr, cleared>>

\* ------------------------------------------------------------ utilities
Range(s) == {s[i] : i \in 1..Len(s)}

Max(S) == CHOOSE x \in S : \A y \in S : y <= x

RECURSIVE Reverse(_)
Reverse(s) == IF s = <<>> THEN <<>> ELSE Append(Reverse(Tail(s)), Head(s))

\* Array.prototype.indexOf: first position, 0 when absent.
IndexOf(s, x) ==
    IF \E i \in 1..Len(s) : s[i] = x
    THEN CHOOSE i \in 1..Len(s) : s[i] = x /\ \A j \in 1..(i - 1) : s[j] # x
    ELSE 0

\* Array.prototype.splice(index, 1)
RemoveAt(s, i) == [j \in 1..(Len(s) - 1) |-> IF j < i THEN s[j] ELSE s[j + 1]]

\* uuid(): a value no chat-hub turn id and no earlier uuid equals.
Uuid(k) == 100 + k

\* ------------------------------------------------- chat-message table
\* messageRepository.getManyBySessionId
GetManyBySessionId(sessionId) ==
    SelectSeq(messages, LAMBDA m : m.sessionId = sessionId)

\* A default head that is the row inserted last, whatever its createdAt.
LatestMessageId_LastInserted(chatMessages) ==
    IF Len(chatMessages) = 0 THEN NULL
    ELSE chatMessages[Len(chatMessages)].id

\* The head when none is given: greatest createdAt, the later row on a tie.
LatestMessageId(chatMessages) ==
    IF Len(chatMessages) = 0 THEN NULL
    ELSE LET top == Max({chatMessages[i].createdAt : i \in 1..Len(chatMessages)})
             i == Max({j \in 1..Len(chatMessages) : chatMessages[j].createdAt = top})
         IN chatMessages[i].id

\* The parent-pointer walk from `current`: head first.  A walk longer than
\* the table is a cycle and fails.
RECURSIVE WalkParents(_, _, _, _)
WalkParents(chatMessages, current, acc, steps) ==
    LET idx == {i \in 1..Len(chatMessages) : chatMessages[i].id = current}
    IN IF current = NULL \/ idx = {}
       THEN [ok |-> TRUE, chain |-> acc, steps |-> steps]
       ELSE IF steps >= Len(chatMessages)
       THEN [ok |-> FALSE, chain |-> <<>>, steps |-> steps]
       ELSE LET m == chatMessages[CHOOSE i \in idx : TRUE]
            IN WalkParents(chatMessages, m.parentId, Append(acc, m), steps + 1)

\* A history that is left in walk order, head first.
BuildMessageHistory_NoReverse(chatMessages, head) ==
    LET start == IF head = NULL THEN LatestMessageId(chatMessages) ELSE head
    IN WalkParents(chatMessages, start, <<>>, 0)

\* buildMessageHistory(chatMessages, head?): root-to-head chain.
BuildMessageHistory(chatMessages, head) ==
    LET start == IF head = NULL THEN LatestMessageId(chatMessages) ELSE head
        w == WalkParents(chatMessages, start, <<>>, 0)
    IN [ok |-> w.ok, chain |-> Reverse(w.chain), steps |-> w.steps]

\* extractTurnIds: turn ids of the AI messages, path order, no null, no repeat.
RECURSIVE ExtractTurnIds(_)
ExtractTurnIds(chain) ==
    IF chain = <<>> THEN <<>>
    ELSE LET n == Len(chain)
             m == chain[n]
             rest == ExtractTurnIds(SubSeq(chain, 1, n - 1))
         IN IF m.role = "ai" /\ m.turnId # NULL /\ m.turnId \notin Range(rest)
            THEN Append(rest, m.turnId)
            ELSE rest

\* extractHumanMessageIds: ids of the human messages, path order.
RECURSIVE ExtractHumanMessageIds(_)
ExtractHumanMessageIds(chain) ==
    IF chain = <<>> THEN <<>>
    ELSE LET m == Head(chain)
             rest == ExtractHumanMessageIds(Tail(chain))
         IN IF m.role = "human" THEN <<m.id>> \o rest ELSE rest

\* ------------------------------------------------------- memory table
\* memoryRepository.getAllMemoryForNode
GetAllMemoryForNode(sessionId, memoryNodeId) ==
    SelectSeq(memory, LAMBDA e :
        e.sessionId = sessionId /\ e.memoryNodeId = memoryNodeId)

\* memoryRepository.getMemoryByParentMessageIds
GetMemoryByParentMessageIds(sessionId, memoryNodeId, ids) ==
    SelectSeq(memory, LAMBDA e :
        /\ e.sessionId = sessionId
        /\ e.memoryNodeId = memoryNodeId
        /\ e.parentMessageId \in Range(ids))

\* memoryRepository.getMemoryByTurnIds
GetMemoryByTurnIds(sessionId, memoryNodeId, ids) ==
    SelectSeq(memory, LAMBDA e :
        /\ e.sessionId = sessionId
        /\ e.memoryNodeId = memoryNodeId
        /\ e.turnId \in Range(ids))

\* A createMemoryEntry that keeps one entry per (session, node, role): a
\* later entry replaces the earlier one.
CreateMemoryEntry_Upsert(entry) ==
    Append(SelectSeq(memory, LAMBDA e :
               ~(e.sessionId = entry.sessionId
                 /\ e.memoryNodeId = entry.memoryNodeId
                 /\ e.role = entry.role)),
           entry)

\* memoryRepository.createMemoryEntry
CreateMemoryEntry(entry) == Append(memory, entry)

\* memoryRepository.deleteBySessionAndNode
DeleteBySessionAndNode(sessionId, memoryNodeId) ==
    SelectSeq(memory, LAMBDA e :
        ~(e.sessionId = sessionId /\ e.memoryNodeId = memoryNodeId))

\* ------------------------------------------------------ session table
\* sessionRepository.existsById(sessionId, ownerId)
ExistsById(sessionId, ownerId) ==
    \E i \in 1..Len(sessions) :
        sessions[i].id = sessionId /\ sessions[i].ownerId = ownerId

\* The primary key of the session table.
DuplicateKey(sessionId) == \E i \in 1..Len(sessions) : sessions[i].id = sessionId

\* -------------------------------------------------------------- handles
NoHandle ==
    [scheme |-> "none", sessionId |-> NULL, memoryNodeId |-> NULL,
     hint |-> NULL, excludeCurrentFromMemory |-> FALSE, ownerId |-> NULL,
     resolvedParentMessageId |-> NULL, parentMessageIdResolved |-> FALSE,
     turnId |-> NULL, workflowId |-> NULL, agentName |-> ""]

NoQuery == [kind |-> "none", ids |-> <<>>]

Idle ==
    [op |-> "none", h |-> 0, error |-> "none", query |-> NoQuery,
     result |-> <<>>, chain |-> <<>>, steps |-> 0]

\* The projection getMemory returns.
MapEntry(entry) ==
    [id |-> entry.id, role |-> entry.role, content |-> entry.content,
     name |-> entry.name]

\* A projection that hands the entries back newest first.
MapEntries_Reversed(entries) ==
    [i \in 1..Len(entries) |-> MapEntry(entries[Len(entries) + 1 - i])]

MapEntries(entries) == [i \in 1..Len(entries) |-> MapEntry(entries[i])]


\* ------------------------------------------------------ handle acquisition
\* An allow-list that lets every node type through.
isAllowedNode_Any(nodeType) == nodeType = nodeType

isAllowedNode(nodeType) == nodeType \in ALLOWED_NODES

\* The strings whose trim() is empty; "" also stands for an absent one.
Blank == {"", "  "}

\* An extractAgentName that forgets to trim.
extractAgentName_NoTrim(workflow) ==
    IF workflow.triggerAgentName # "" THEN workflow.triggerAgentName
    ELSE IF workflow.name # "" THEN workflow.name
    ELSE NAME_FALLBACK

\* extractAgentName(workflow): chat trigger's agentName, else the workflow
\* name, else the fixed default.
extractAgentName(workflow) ==
    IF workflow.triggerAgentName \notin Blank THEN workflow.triggerAgentName
    ELSE IF workflow.name \notin Blank THEN workflow.name
    ELSE NAME_FALLBACK

\* getChatHubProxy of the parent-message revision -> makeChatHubOperations.
GetChatHubProxyA(workflow, nodeType, sessionId, memoryNodeId, parentMessageId, excludeCurrentFromMemory, ownerId) ==
    IF ~isAllowedNode(nodeType)
    THEN [error |-> "not allowed", handle |-> NoHandle]
    ELSE IF ownerId \in {NULL, EMPTY}
    THEN [error |-> "owner required", handle |-> NoHandle]
    ELSE [error |-> "none",
          handle |->
            [scheme |-> "parent", sessionId |-> sessionId,
             memoryNodeId |-> memoryNodeId, hint |-> parentMessageId,
             excludeCurrentFromMemory |-> excludeCurrentFromMemory,
             ownerId |-> ownerId,
             resolvedParentMessageId |-> parentMessageId,
             parentMessageIdResolved |-> (parentMessageId # NULL),
             turnId |-> NULL, workflowId |-> workflow.id,
             agentName |-> extractAgentName(workflow)]]

\* A getChatHubProxy that hands out a handle whatever the owner.
GetChatHubProxyB_NoOwnerCheck(workflow, nodeType, sessionId, memoryNodeId, providedTurnId, ownerId, uuid) ==
    IF ~isAllowedNode(nodeType)
    THEN [error |-> "not allowed", handle |-> NoHandle]
    ELSE [error |-> "none",
          handle |->
            [scheme |-> "turn", sessionId |-> sessionId,
             memoryNodeId |-> memoryNodeId, hint |-> providedTurnId,
             excludeCurrentFromMemory |-> FALSE, ownerId |-> ownerId,
             resolvedParentMessageId |-> NULL,
             parentMessageIdResolved |-> FALSE,
             turnId |-> IF providedTurnId # NULL THEN providedTurnId ELSE uuid,
             workflowId |-> workflow.id,
             agentName |-> extractAgentName(workflow)]]

\* getChatHubProxy of the turn revision -> makeChatHubOperations.
GetChatHubProxyB(workflow, nodeType, sessionId, memoryNodeId, providedTurnId, ownerId, uuid) ==
    IF ~isAllowedNode(nodeType)
    THEN [error |-> "not allowed", handle |-> NoHandle]
    ELSE IF ownerId \in {NULL, EMPTY}
    THEN [error |-> "owner required", handle |-> NoHandle]
    ELSE [error |-> "none",
          handle |->
            [scheme |-> "turn", sessionId |-> sessionId,
             memoryNodeId |-> memoryNodeId, hint |-> providedTurnId,
             excludeCurrentFromMemory |-> FALSE, ownerId |-> ownerId,
             resolvedParentMessageId |-> NULL,
             parentMessageIdResolved |-> FALSE,
             turnId |-> IF providedTurnId # NULL THEN providedTurnId ELSE uuid,
             workflowId |-> workflow.id,
             agentName |-> extractAgentName(workflow)]]

\* ---------------------------------------------- parent-message revision
\* resolveParentMessageId(): the closure's lazily resolved parent id.
ResolveParentMessageId(hd) ==
    IF hd.parentMessageIdResolved
    THEN [ok |-> TRUE, value |-> hd.resolvedParentMessageId, hd |-> hd,
          steps |-> 0]
    ELSE LET chatMessages == GetManyBySessionId(hd.sessionId)
             messageChain == BuildMessageHistory(chatMessages, NULL)
             humanMessageIds == ExtractHumanMessageIds(messageChain.chain)
             v == IF Len(humanMessageIds) > 0
                  THEN humanMessageIds[Len(humanMessageIds)]
                  ELSE NULL
         IN IF ~messageChain.ok
            THEN [ok |-> FALSE, value |-> NULL, hd |-> hd,
                  steps |-> messageChain.steps]
            ELSE [ok |-> TRUE, value |-> v,
                  hd |-> [hd EXCEPT !.resolvedParentMessageId = v,
                                    !.parentMessageIdResolved = TRUE],
                  steps |-> messageChain.steps]

\* A filter that forgets the regeneration exclusion.
FilterIdsA_NoExclude(humanMessageIds, parentMessageId, excludeCurrentFromMemory) ==
    IF parentMessageId \notin Range(humanMessageIds)
    THEN Append(humanMessageIds, parentMessageId)
    ELSE humanMessageIds

\* A filter that trusts the chain to hold the current parent id.
FilterIdsA_NoPush(humanMessageIds, parentMessageId, excludeCurrentFromMemory) ==
    IF excludeCurrentFromMemory
    THEN LET index == IndexOf(humanMessageIds, parentMessageId)
         IN IF index # 0 THEN RemoveAt(humanMessageIds, index)
            ELSE humanMessageIds
    ELSE humanMessageIds

\* The id list getMemory filters by, from the human ids of the chain.
FilterIdsA(humanMessageIds, parentMessageId, excludeCurrentFromMemory) ==
    IF excludeCurrentFromMemory
    THEN LET index == IndexOf(humanMessageIds, parentMessageId)
         IN IF index # 0 THEN RemoveAt(humanMessageIds, index)
            ELSE humanMessageIds
    ELSE IF parentMessageId \notin Range(humanMessageIds)
         THEN Append(humanMessageIds, parentMessageId)
         ELSE humanMessageIds

\* A getMemory that sends an empty filter to the store instead of returning.
GetMemoryA_QueryEmpty(hd) ==
    LET r == ResolveParentMessageId(hd)
        parentMessageId == r.value
        failed == [hd |-> r.hd, error |-> "corrupt history", query |-> NoQuery,
                   result |-> <<>>, chain |-> <<>>, steps |-> r.steps]
    IN IF ~r.ok THEN failed
       ELSE IF parentMessageId # NULL
       THEN LET chatMessages == GetManyBySessionId(hd.sessionId)
                messageChain == BuildMessageHistory(chatMessages, parentMessageId)
                humanMessageIds ==
                    FilterIdsA(ExtractHumanMessageIds(messageChain.chain),
                               parentMessageId, hd.excludeCurrentFromMemory)
            IN IF ~messageChain.ok
               THEN [failed EXCEPT !.steps = messageChain.steps]
               ELSE [hd |-> r.hd, error |-> "none",
                     query |-> [kind |-> "byIds", ids |-> humanMessageIds],
                     result |-> MapEntries(GetMemoryByParentMessageIds(
                         hd.sessionId, hd.memoryNodeId, humanMessageIds)),
                     chain |-> messageChain.chain,
                     steps |-> messageChain.steps]
       ELSE [hd |-> r.hd, error |-> "none",
             query |-> [kind |-> "all", ids |-> <<>>],
             result |-> MapEntries(GetAllMemoryForNode(hd.sessionId,
                                                       hd.memoryNodeId)),
             chain |-> <<>>, steps |-> r.steps]

\* getMemory() of the parent-message revision.
GetMemoryA(hd) ==
    LET r == ResolveParentMessageId(hd)
        parentMessageId == r.value
        failed == [hd |-> r.hd, error |-> "corrupt history", query |-> NoQuery,
                   result |-> <<>>, chain |-> <<>>, steps |-> r.steps]
    IN IF ~r.ok THEN failed
       ELSE IF parentMessageId # NULL
       THEN LET chatMessages == GetManyBySessionId(hd.sessionId)
                messageChain == BuildMessageHistory(chatMessages, parentMessageId)
                humanMessageIds ==
                    FilterIdsA(ExtractHumanMessageIds(messageChain.chain),
                               parentMessageId, hd.excludeCurrentFromMemory)
            IN IF ~messageChain.ok
               THEN [failed EXCEPT !.steps = messageChain.steps]
               ELSE IF Len(humanMessageIds) = 0
               THEN [hd |-> r.hd, error |-> "none", query |-> NoQuery,
                     result |-> <<>>, chain |-> messageChain.chain,
                     steps |-> messageChain.steps]
               ELSE [hd |-> r.hd, error |-> "none",
                     query |-> [kind |-> "byIds", ids |-> humanMessageIds],
                     result |-> MapEntries(GetMemoryByParentMessageIds(
                         hd.sessionId, hd.memoryNodeId, humanMessageIds)),
                     chain |-> messageChain.chain,
                     steps |-> messageChain.steps]
       ELSE [hd |-> r.hd, error |-> "none",
             query |-> [kind |-> "all", ids |-> <<>>],
             result |-> MapEntries(GetAllMemoryForNode(hd.sessionId,
                                                       hd.memoryNodeId)),
             chain |-> <<>>, steps |-> r.steps]

\* ------------------------------------------------------- turn revision
\* A getMemory that reads the turn ids off the whole log, superseded
\* branches included.
ChainB_WholeLog(chatMessages) ==
    [ok |-> TRUE, chain |-> chatMessages, steps |-> Len(chatMessages)]

\* A getMemory that catches the history error and carries on with no chain.
ChainB_IgnoreCorruption(chatMessages) ==
    [BuildMessageHistory(chatMessages, NULL) EXCEPT !.ok = TRUE]

\* getMemory: the chain of the latest message.
ChainB(chatMessages) == BuildMessageHistory(chatMessages, NULL)

\* A getMemory that adds the handle's own turn to the filter.
TurnIdsB_OwnTurn(hd, messageChain) ==
    LET turnIds == ExtractTurnIds(messageChain.chain)
    IN IF hd.turnId \in Range(turnIds) THEN turnIds
       ELSE Append(turnIds, hd.turnId)

\* getMemory: the turn ids of the AI messages of the chain.
TurnIdsB(hd, messageChain) == ExtractTurnIds(messageChain.chain)

\* A getMemory that degrades to the whole-node history when it finds no
\* turn id, an empty log included.
GetMemoryB_Degrade(hd) ==
    LET chatMessages == GetManyBySessionId(hd.sessionId)
        messageChain == ChainB(chatMessages)
        turnIds == TurnIdsB(hd, messageChain)
    IN IF ~messageChain.ok
       THEN [hd |-> hd, error |-> "corrupt history", query |-> NoQuery,
             result |-> <<>>, chain |-> <<>>, steps |-> messageChain.steps]
       ELSE IF hd.hint = NULL \/ Len(turnIds) = 0
       THEN [hd |-> hd, error |-> "none",
             query |-> [kind |-> "all", ids |-> <<>>],
             result |-> MapEntries(GetAllMemoryForNode(hd.sessionId,
                                                       hd.memoryNodeId)),
             chain |-> messageChain.chain, steps |-> messageChain.steps]
       ELSE [hd |-> hd, error |-> "none",
             query |-> [kind |-> "byIds", ids |-> turnIds],
             result |-> MapEntries(GetMemoryByTurnIds(
                 hd.sessionId, hd.memoryNodeId, turnIds)),
             chain |-> messageChain.chain, steps |-> messageChain.steps]

\* A getMemory that, given no turn id, looks for turn ids in the log before
\* it falls back to the whole-node history.
GetMemoryB_ResolveFromLog(hd) ==
    LET chatMessages == GetManyBySessionId(hd.sessionId)
        messageChain == ChainB(chatMessages)
        turnIds == TurnIdsB(hd, messageChain)
        nothing == [hd |-> hd, error |-> "none", query |-> NoQuery,
                    result |-> <<>>, chain |-> <<>>, steps |-> 0]
    IN IF ~messageChain.ok
       THEN [nothing EXCEPT !.error = "corrupt history",
                            !.steps = messageChain.steps]
       ELSE IF Len(turnIds) > 0
       THEN [hd |-> hd, error |-> "none",
             query |-> [kind |-> "byIds", ids |-> turnIds],
             result |-> MapEntries(GetMemoryByTurnIds(
                 hd.sessionId, hd.memoryNodeId, turnIds)),
             chain |-> messageChain.chain, steps |-> messageChain.steps]
       ELSE IF hd.hint = NULL
       THEN [hd |-> hd, error |-> "none",
             query |-> [kind |-> "all", ids |-> <<>>],
             result |-> MapEntries(GetAllMemoryForNode(hd.sessionId,
                                                       hd.memoryNodeId)),
             chain |-> messageChain.chain, steps |-> messageChain.steps]
       ELSE [nothing EXCEPT !.chain = messageChain.chain,
                            !.steps = messageChain.steps]

\* A getMemory that takes for the head of the path the latest message
\* carrying the handle's turn id, when there is one.
GetMemoryB_HeadFromHint(hd) ==
    LET chatMessages == GetManyBySessionId(hd.sessionId)
        own == {i \in 1..Len(chatMessages) : chatMessages[i].turnId = hd.turnId}
        head == IF own = {} THEN NULL ELSE chatMessages[Max(own)].id
        messageChain == BuildMessageHistory(chatMessages, head)
        turnIds == TurnIdsB(hd, messageChain)
        nothing == [hd |-> hd, error |-> "none", query |-> NoQuery,
                    result |-> <<>>, chain |-> <<>>, steps |-> 0]
    IN IF hd.hint = NULL
       THEN [hd |-> hd, error |-> "none",
             query |-> [kind |-> "all", ids |-> <<>>],
             result |-> MapEntries(GetAllMemoryForNode(hd.sessionId,
                                                       hd.memoryNodeId)),
             chain |-> <<>>, steps |-> 0]
       ELSE IF Len(chatMessages) = 0 THEN nothing
       ELSE IF ~messageChain.ok
       THEN [nothing EXCEPT !.error = "corrupt history",
                            !.steps = messageChain.steps]
       ELSE IF Len(turnIds) = 0
       THEN [nothing EXCEPT !.chain = messageChain.chain,
                            !.steps = messageChain.steps]
       ELSE [hd |-> hd, error |-> "none",
             query |-> [kind |-> "byIds", ids |-> turnIds],
             result |-> MapEntries(GetMemoryByTurnIds(
                 hd.sessionId, hd.memoryNodeId, turnIds)),
             chain |-> messageChain.chain, steps |-> messageChain.steps]

\* getMemory() of the turn revision.
GetMemoryB(hd) ==
    IF hd.hint = NULL
    THEN [hd |-> hd, error |-> "none",
          query |-> [kind |-> "all", ids |-> <<>>],
          result |-> MapEntries(GetAllMemoryForNode(hd.sessionId,
                                                    hd.memoryNodeId)),
          chain |-> <<>>, steps |-> 0]
    ELSE LET chatMessages == GetManyBySessionId(hd.sessionId)
             messageChain == ChainB(chatMessages)
             turnIds == TurnIdsB(hd, messageChain)
             nothing == [hd |-> hd, error |-> "none", query |-> NoQuery,
                         result |-> <<>>, chain |-> <<>>, steps |-> 0]
         IN IF Len(chatMessages) = 0 THEN nothing
            ELSE IF ~messageChain.ok
            THEN [nothing EXCEPT !.error = "corrupt history",
                                 !.steps = messageChain.steps]
            ELSE IF Len(turnIds) = 0
            THEN [nothing EXCEPT !.chain = messageChain.chain,
                                 !.steps = messageChain.steps]
            ELSE [hd |-> hd, error |-> "none",
                  query |-> [kind |-> "byIds", ids |-> turnIds],
                  result |-> MapEntries(GetMemoryByTurnIds(
                      hd.sessionId, hd.memoryNodeId, turnIds)),
                  chain |-> messageChain.chain,
                  steps |-> messageChain.steps]

\* The key an add* call of handle hd stamps, with the closure state after
\* resolving it.
CorrelationKey(hd) ==
    IF hd.scheme = "parent" THEN ResolveParentMessageId(hd)
    ELSE [ok |-> TRUE, value |-> hd.turnId, hd |-> hd, steps |-> 0]

\* A row that stamps the key the handle was given instead of the one it
\* resolved.
NewEntry_HintKey(h, hd, key, id, role, content, name) ==
    [id |-> id, sessionId |-> hd.sessionId, memoryNodeId |-> hd.memoryNodeId,
     parentMessageId |-> IF hd.scheme = "parent" THEN hd.hint ELSE NULL,
     turnId |-> IF hd.scheme = "turn" THEN hd.hint ELSE NULL,
     role |-> role, content |-> content, name |-> name, via |-> h]

\* The row add* hands to createMemoryEntry.
NewEntry(h, hd, key, id, role, content, name) ==
    [id |-> id, sessionId |-> hd.sessionId, memoryNodeId |-> hd.memoryNodeId,
     parentMessageId |-> IF hd.scheme = "parent" THEN key ELSE NULL,
     turnId |-> IF hd.scheme = "turn" THEN key ELSE NULL,
     role |-> role, content |-> content, name |-> name, via |-> h]

\* ------------------------------------------------- JavaScript values
\* A string is a sequence of tokens: <<"hello">> is the text hello.  A value
\* of any type is kept as its JSON text, again a sequence of tokens: a
\* string value is the escaped string between two quotes, an array its items
\* between brackets, an object its members between braces.
Quote == "\""

Backslash == "\\"

\* undefined: no JSON text stands for it.
UNDEFINED == <<"(undefined)">>

\* One-token JSON texts: null, booleans, numbers.
Literals == {"null", "true", "false", "0", "1", "42"}

\* The escaping of a string inside a JSON string literal.
RECURSIVE EscapeString(_)
EscapeString(s) ==
    IF s = <<>> THEN <<>>
    ELSE (IF Head(s) \in {Quote, Backslash} THEN <<Backslash, Head(s)>>
          ELSE <<Head(s)>>) \o EscapeString(Tail(s))

RECURSIVE UnescapeString(_)
UnescapeString(s) ==
    IF s = <<>> THEN <<>>
    ELSE IF Head(s) = Backslash /\ Len(s) >= 2
    THEN <<s[2]>> \o UnescapeString(SubSeq(s, 3, Len(s)))
    ELSE <<Head(s)>> \o UnescapeString(Tail(s))

\* The value of a string, and the string of a string value.
StringValue(s) == <<Quote>> \o EscapeString(s) \o <<Quote>>

StringOf(value) == UnescapeString(SubSeq(value, 2, Len(value) - 1))

\* typeof value === 'string'
IsStringValue(value) == value # <<>> /\ value[1] = Quote

RECURSIVE Join(_, _)
Join(parts, sep) ==
    IF parts = <<>> THEN <<>>
    ELSE IF Len(parts) = 1 THEN parts[1]
    ELSE parts[1] \o sep \o Join(Tail(parts), sep)

\* [item, ...]
ArrayValue(items) == <<"[">> \o Join(items, <<",">>) \o <<"]">>

\* { key: value, ... }; a property whose value is undefined has no member.
ObjectValue(keys, values) ==
    LET kept == SelectSeq([i \in 1..Len(keys) |-> i],
                          LAMBDA i : values[i] # UNDEFINED)
    IN <<"{">> \o Join([n \in 1..Len(kept) |->
                          StringValue(<<keys[kept[n]]>>) \o <<":">> \o values[kept[n]]],
                      <<",">>) \o <<"}">>

\* The token at j follows an odd run of backslashes.
RECURSIVE Escaped(_, _)
Escaped(toks, j) ==
    IF j > 1 /\ toks[j - 1] = Backslash THEN ~Escaped(toks, j - 1) ELSE FALSE

\* The positions of the quotes that open or close a string.
Quotes(toks) == {j \in 1..Len(toks) : toks[j] = Quote /\ ~Escaped(toks, j)}

\* The positions of the brackets and commas outside strings.
Plain(toks, quotes) ==
    {j \in 1..Len(toks) :
        /\ toks[j] \in {"{", "[", "}", "]", ","}
        /\ Cardinality({k \in quotes : k < j}) % 2 = 0}

\* The nesting depth before position j.
Depth(toks, plain, j) ==
    Cardinality({k \in plain : k < j /\ toks[k] \in {"{", "["}})
      - Cardinality({k \in plain : k < j /\ toks[k] \in {"}", "]"}})

\* A scan of JSON tokens: the nesting depth and the string state at the end,
\* whether every closing bracket closes something, and the positions of the
\* commas at depth 0 outside strings.
ScanPlain(toks, quotes, plain) ==
    [depth |-> Depth(toks, plain, Len(toks) + 1),
     inStr |-> Cardinality(quotes) % 2 = 1,
     closed |-> \A j \in plain :
                   toks[j] \in {"}", "]"} => Depth(toks, plain, j) >= 1,
     commas |-> {j \in plain : toks[j] = "," /\ Depth(toks, plain, j) = 0}]

ScanQuotes(toks, quotes) == ScanPlain(toks, quotes, Plain(toks, quotes))

ScanTokens(toks) == ScanQuotes(toks, Quotes(toks))

\* The n-th smallest of a set of positions.
Nth(cuts, n) == CHOOSE c \in cuts : Cardinality({d \in cuts : d < c}) = n - 1

\* The parts of the tokens between the cuts.
Split(inner, cuts) ==
    [n \in 1..(Cardinality(cuts) - 1) |->
        SubSeq(inner, Nth(cuts, n) + 1, Nth(cuts, n + 1) - 1)]

SplitTop(inner) ==
    Split(inner, ScanTokens(inner).commas \cup {0, Len(inner) + 1})

\* The items of an array value, the members of an object value.
Elements(value) ==
    IF Len(value) <= 2 THEN <<>>
    ELSE SplitTop(SubSeq(value, 2, Len(value) - 1))

\* The scan ends closed.
Closes(end) == end.depth = 0 /\ ~end.inStr /\ end.closed

\* The text is JSON: a literal, or a string, array or object that closes.
IsJson(text) ==
    /\ text # <<>>
    /\ \/ Len(text) = 1 /\ text[1] \in Literals
       \/ /\ Len(text) >= 2
          /\ \/ text[1] = Quote /\ text[Len(text)] = Quote
             \/ text[1] = "{" /\ text[Len(text)] = "}"
             \/ text[1] = "[" /\ text[Len(text)] = "]"
          /\ Closes(ScanTokens(text))

\* JSON.stringify(value): undefined for undefined.
JsonStringify(value) == value

\* The value of the last member with the key, undefined when there is none.
Member(members, hits) ==
    IF hits = {} THEN UNDEFINED
    ELSE SubSeq(members[Max(hits)], 5, Len(members[Max(hits)]))

MemberOf(members, key) ==
    Member(members, {i \in 1..Len(members) :
                        Len(members[i]) >= 4 /\ members[i][2] = key})

\* The members of a value: none unless it is an object.
Members(value) ==
    IF value # <<>> /\ value[1] = "{" THEN Elements(value) ELSE <<>>

\* value.key: undefined when the value is no object or has no such member.
Prop(value, key) == MemberOf(Members(value), key)

\* x ?? d
Coalesce(x, d) == IF x = UNDEFINED \/ x = <<"null">> THEN d ELSE x

\* JSON.stringify({ toolCallId, toolName, toolInput, toolOutput })
StringifyTool(toolCallId, toolName, toolInput, toolOutput) ==
    JsonStringify(ObjectValue(
        <<"toolCallId", "toolName", "toolInput", "toolOutput">>,
        <<StringValue(toolCallId), StringValue(toolName), toolInput, toolOutput>>))


\* A createChatSession on a table without a primary key.
CreateChatSession_NoKey(row) == [ok |-> TRUE, sessions |-> Append(sessions, row)]

\* sessionRepository.createChatSession: an insert; the primary key rejects
\* a second row with the same id.
CreateChatSession(row) ==
    IF DuplicateKey(row.id)
    THEN [ok |-> FALSE, sessions |-> sessions]
    ELSE [ok |-> TRUE, sessions |-> Append(sessions, row)]

\* Position of a handle's ensureSession and how its last one ended.
IdlePc == [at |-> "idle", title |-> "", outcome |-> "none"]

\* ------------------------------------------------------------------ Init
Init ==
    /\ messages = <<>>
    /\ memory = <<>>
    /\ sessions = <<>>
    /\ handles = [h \in HandleIds |-> NoHandle]
    /\ pc = [h \in HandleIds |-> IdlePc]
    /\ last = Idle
    /\ uuidCtr = 0
    /\ cleared = {}

\* --------------------------------------------------- the chat-message log
\* Every parent pointer names an earlier row of the same session.
ValidForest ==
    \A i \in 1..Len(messages) :
        \/ messages[i].parentId = NULL
        \/ \E j \in 1..(i - 1) :
              /\ messages[j].id = messages[i].parentId
              /\ messages[j].sessionId = messages[i].sessionId

\* The chat UI / execution layer adds a message (a first message, a reply,
\* or an edit or retry: a new child of an existing message).
AppendMessage(sessionId, parentId, role, turnId, createdAt) ==
    /\ \/ parentId = NULL
       \/ \E i \in 1..Len(messages) :
             messages[i].id = parentId /\ messages[i].sessionId = sessionId
    /\ messages' = Append(messages,
           [id |-> Len(messages) + 1, sessionId |-> sessionId,
            parentId |-> parentId, role |-> role, turnId |-> turnId,
            createdAt |-> createdAt])
    /\ last' = Idle
    /\ UNCHANGED <<memory, sessions, handles, pc, uuidCtr, cleared>>

\* A corrupted row: the parent pointer of row i is overwritten.
CorruptParent(i, parentId) ==
    /\ ValidForest
    /\ i \in 1..Len(messages)
    /\ \E j \in i..Len(messages) :
          /\ messages[j].id = parentId
          /\ messages[j].sessionId = messages[i].sessionId
    /\ messages' = [messages EXCEPT ![i].parentId = parentId]
    /\ last' = Idle
    /\ UNCHANGED <<memory, sessions, handles, pc, uuidCtr, cleared>>

\* ------------------------------------------------------------ operations
\* The uuid a turn-revision handle in slot h mints when no turn id is given.
HandleUuid(h) == Uuid(MaxMem + h)

FirstFree(h) ==
    /\ handles[h] = NoHandle
    /\ \A g \in HandleIds : g < h => handles[g] # NoHandle

Completed(op, h, error) == [Idle EXCEPT !.op = op, !.h = h, !.error = error]

AcquireA(h, workflow, nodeType, sessionId, memoryNodeId, parentMessageId, excludeCurrentFromMemory, ownerId) ==
    /\ FirstFree(h)
    /\ LET r == GetChatHubProxyA(workflow, nodeType, sessionId, memoryNodeId,
                    parentMessageId, excludeCurrentFromMemory, ownerId)
       IN /\ handles' = [handles EXCEPT ![h] = r.handle]
          /\ last' = [Completed("getChatHubProxy", h, r.error)
                         EXCEPT !.result = <<nodeType, ownerId>>]
    /\ UNCHANGED <<messages, memory, sessions, pc, uuidCtr, cleared>>

AcquireB(h, workflow, nodeType, sessionId, memoryNodeId, providedTurnId, ownerId) ==
    /\ FirstFree(h)
    /\ LET r == GetChatHubProxyB(workflow, nodeType, sessionId, memoryNodeId,
                    providedTurnId, ownerId, HandleUuid(h))
       IN /\ handles' = [handles EXCEPT ![h] = r.handle]
          /\ last' = [Completed("getChatHubProxy", h, r.error)
                         EXCEPT !.result = <<nodeType, ownerId>>]
    /\ UNCHANGED <<messages, memory, sessions, pc, uuidCtr, cleared>>

Live(h) == handles[h].scheme # "none" /\ pc[h].at = "idle"

\* getOwnerId()
GetOwnerId(h) ==
    /\ Live(h)
    /\ last' = [Completed("getOwnerId", h, "none")
                   EXCEPT !.result = <<handles[h].ownerId>>]
    /\ UNCHANGED <<messages, memory, sessions, handles, pc, uuidCtr, cleared>>

GetMemoryOf(hd) == IF hd.scheme = "parent" THEN GetMemoryA(hd) ELSE GetMemoryB(hd)

GetMemoryCall(h) ==
    /\ handles[h].scheme # "none"
    /\ LET r == GetMemoryOf(handles[h])
       IN /\ handles' = [handles EXCEPT ![h] = r.hd]
          /\ last' = [op |-> "getMemory", h |-> h, error |-> r.error,
                      query |-> r.query, result |-> r.result,
                      chain |-> r.chain, steps |-> r.steps]
    /\ UNCHANGED <<messages, memory, sessions, pc, uuidCtr, cleared>>

\* getMemory() of a handle with no other call in flight.
GetMemory(h) == Live(h) /\ GetMemoryCall(h)

\* The common body of addHumanMessage, addAIMessage and addToolMessage.
AddEntryOf(op, h, role, content, name) ==
    /\ uuidCtr < MaxMem
    /\ LET k == CorrelationKey(handles[h])
       IN IF ~k.ok
          THEN /\ last' = [Completed(op, h, "corrupt history")
                              EXCEPT !.steps = k.steps]
               /\ UNCHANGED <<memory, handles, uuidCtr, cleared>>
          ELSE /\ memory' = CreateMemoryEntry(NewEntry(h, k.hd, k.value,
                                Uuid(uuidCtr + 1), role, content, name))
               /\ uuidCtr' = uuidCtr + 1
               /\ handles' = [handles EXCEPT ![h] = k.hd]
               /\ cleared' = cleared \ {<<k.hd.sessionId, k.hd.memoryNodeId>>}
               /\ last' = Completed(op, h, "none")
    /\ UNCHANGED <<messages, sessions>>

\* An add* call of a handle with no other call in flight.
AddEntry(op, h, role, content, name) ==
    /\ Live(h)
    /\ AddEntryOf(op, h, role, content, name)
    /\ UNCHANGED pc

AddHumanMessage(h, content) == AddEntry("addHumanMessage", h, "human", content, <<"User">>)

AddAIMessage(h, content) == AddEntry("addAIMessage", h, "ai", content, <<"AI">>)

AddToolMessage(h, toolCallId, toolName, toolInput, toolOutput) ==
    AddEntry("addToolMessage", h, "tool",
             StringifyTool(toolCallId, toolName, toolInput, toolOutput), toolName)

\* -- add* calls in flight together on one handle.  A call awaits
\* resolveParentMessageId() and then createMemoryEntry(); pc[h].calls holds
\* the calls that have started and not ended, each with the await it is at.
CallsOf(h) == IF pc[h].at = "calls" THEN pc[h].calls ELSE <<>>

WithCalls(h, calls) ==
    [pc EXCEPT ![h] =
        IF calls = <<>> THEN [at |-> "idle", title |-> "", outcome |-> @.outcome]
        ELSE [at |-> "calls", title |-> "", outcome |-> @.outcome,
              calls |-> calls]]

\* add*: the call, up to its first await.  resolveParentMessageId returns at
\* once when the id is resolved and reads the log when it is not.
CallAdd(h, op, role, content, name) ==
    /\ handles[h].scheme # "none"
    /\ pc[h].at \in {"idle", "calls"}
    /\ uuidCtr + Len(CallsOf(h)) < MaxMem
    /\ LET hd == handles[h]
           known == hd.scheme = "turn" \/ hd.parentMessageIdResolved
           call == [op |-> op, role |-> role, content |-> content,
                    name |-> name,
                    at |-> IF known THEN "insert" ELSE "read",
                    key |-> IF known THEN CorrelationKey(hd).value ELSE NULL]
       IN pc' = WithCalls(h, Append(CallsOf(h), call))
    /\ last' = Idle
    /\ UNCHANGED <<messages, memory, sessions, handles, uuidCtr, cleared>>

\* resolveParentMessageId, from the answer of getManyBySessionId on: the call
\* passed the check of parentMessageIdResolved before the await, so it sets
\* the closure variables whatever they hold by now.
CallResolve(h, c) ==
    /\ c \in 1..Len(CallsOf(h))
    /\ CallsOf(h)[c].at = "read"
    /\ LET r == ResolveParentMessageId(
                    [handles[h] EXCEPT !.parentMessageIdResolved = FALSE])
       IN IF ~r.ok
          THEN /\ pc' = WithCalls(h, RemoveAt(CallsOf(h), c))
               /\ last' = [Completed(CallsOf(h)[c].op, h, "corrupt history")
                              EXCEPT !.steps = r.steps]
               /\ UNCHANGED handles
          ELSE /\ pc' = WithCalls(h, [CallsOf(h) EXCEPT ![c].at = "insert",
                                                        ![c].key = r.value])
               /\ handles' = [handles EXCEPT ![h] = r.hd]
               /\ last' = Idle
    /\ UNCHANGED <<messages, memory, sessions, uuidCtr, cleared>>

\* add*, from uuid() on: the row carries the id the call's own await of
\* resolveParentMessageId returned.
CallInsert(h, c) ==
    /\ c \in 1..Len(CallsOf(h))
    /\ CallsOf(h)[c].at = "insert"
    /\ LET call == CallsOf(h)[c]
           hd == handles[h]
       IN /\ memory' = CreateMemoryEntry(NewEntry(h, hd, call.key,
                           Uuid(uuidCtr + 1), call.role, call.content, call.name))
          /\ cleared' = cleared \ {<<hd.sessionId, hd.memoryNodeId>>}
          /\ last' = Completed(call.op, h, "none")
    /\ uuidCtr' = uuidCtr + 1
    /\ pc' = WithCalls(h, RemoveAt(CallsOf(h), c))
    /\ UNCHANGED <<messages, sessions, handles>>

\* A clearMemory that deletes by session alone.
ClearMemory_WholeSession(h) ==
    /\ Live(h)
    /\ memory' = SelectSeq(memory, LAMBDA e : e.sessionId # handles[h].sessionId)
    /\ cleared' = cleared \cup {<<handles[h].sessionId, handles[h].memoryNodeId>>}
    /\ last' = Completed("clearMemory", h, "none")
    /\ UNCHANGED <<messages, sessions, handles, pc, uuidCtr>>

\* A clearMemory that passes its two ids in the wrong order.
ClearMemory_Swapped(h) ==
    /\ Live(h)
    /\ memory' = DeleteBySessionAndNode(handles[h].memoryNodeId,
                                        handles[h].sessionId)
    /\ cleared' = cleared \cup {<<handles[h].sessionId, handles[h].memoryNodeId>>}
    /\ last' = Completed("clearMemory", h, "none")
    /\ UNCHANGED <<messages, sessions, handles, pc, uuidCtr>>

\* A clearMemory that takes the session row along with the entries.
ClearMemory_DropSession(h) ==
    /\ Live(h)
    /\ memory' = DeleteBySessionAndNode(handles[h].sessionId,
                                        handles[h].memoryNodeId)
    /\ sessions' = SelectSeq(sessions, LAMBDA r : r.id # handles[h].sessionId)
    /\ cleared' = cleared \cup {<<handles[h].sessionId, handles[h].memoryNodeId>>}
    /\ last' = Completed("clearMemory", h, "none")
    /\ UNCHANGED <<messages, handles, pc, uuidCtr>>

ClearMemory(h) ==
    /\ Live(h)
    /\ memory' = DeleteBySessionAndNode(handles[h].sessionId,
                                        handles[h].memoryNodeId)
    /\ cleared' = cleared \cup {<<handles[h].sessionId, handles[h].memoryNodeId>>}
    /\ last' = Completed("clearMemory", h, "none")
    /\ UNCHANGED <<messages, sessions, handles, pc, uuidCtr>>

\* An ensureSession that renames the session it finds.
EnsureSessionCheck_Touch(h, title) ==
    /\ Live(h)
    /\ IF ExistsById(handles[h].sessionId, handles[h].ownerId)
       THEN /\ pc' = [pc EXCEPT ![h].outcome = "ok"]
            /\ sessions' = [i \in 1..Len(sessions) |->
                   IF sessions[i].id = handles[h].sessionId
                   THEN [sessions[i] EXCEPT !.title = title]
                   ELSE sessions[i]]
            /\ last' = [Completed("ensureSession", h, "none")
                           EXCEPT !.result = <<"exists">>]
       ELSE /\ pc' = [pc EXCEPT ![h] = [at |-> "insert", title |-> title,
                                        outcome |-> "none"]]
            /\ sessions' = sessions
            /\ last' = Idle
    /\ UNCHANGED <<messages, memory, handles, uuidCtr, cleared>>

\* ensureSession, up to the answer of existsById.
EnsureSessionCheck(h, title) ==
    /\ Live(h)
    /\ IF ExistsById(handles[h].sessionId, handles[h].ownerId)
       THEN /\ pc' = [pc EXCEPT ![h].outcome = "ok"]
            /\ last' = [Completed("ensureSession", h, "none")
                           EXCEPT !.result = <<"exists">>]
       ELSE /\ pc' = [pc EXCEPT ![h] = [at |-> "insert", title |-> title,
                                        outcome |-> "none"]]
            /\ last' = Idle
    /\ UNCHANGED <<messages, memory, sessions, handles, uuidCtr, cleared>>

\* The row ensureSession inserts.
SessionRow(hd, title, now) ==
    [id |-> hd.sessionId, ownerId |-> hd.ownerId,
     title |-> IF hd.scheme = "parent" /\ title # "" THEN title ELSE hd.agentName,
     lastMessageAt |-> now,
     workflowId |-> hd.workflowId, agentName |-> hd.agentName]

\* ensureSession, from createChatSession on: a rejected insert is not caught.
EnsureSessionInsert(h, now) ==
    /\ handles[h].scheme # "none"
    /\ pc[h].at = "insert"
    /\ LET r == CreateChatSession(SessionRow(handles[h], pc[h].title, now))
       IN /\ sessions' = r.sessions
          /\ pc' = [pc EXCEPT ![h] = [at |-> "idle", title |-> "",
                        outcome |-> IF r.ok THEN "ok" ELSE "error"]]
          /\ last' = [Completed("ensureSession", h,
                                IF r.ok THEN "none" ELSE "duplicate key")
                         EXCEPT !.result = IF r.ok THEN <<"created">> ELSE <<>>]
    /\ UNCHANGED <<messages, memory, handles, uuidCtr, cleared>>


\* A workflow whose chat trigger names no agent.
Workflow1 == [id |-> 1, name |-> "Support flow", triggerAgentName |-> ""]

\* ------------------------------------------------------ the memory node
\* A helper that exposes getChatHubProxy with or without a provider.
getChatHubHelperFunctions_Always(chatHubProxyProvider) == {"getChatHubProxy"}

\* getChatHubHelperFunctions: the functions the helper exposes; none when
\* the execution data carries no proxy provider.
getChatHubHelperFunctions(chatHubProxyProvider) ==
    IF ~chatHubProxyProvider THEN {} ELSE {"getChatHubProxy"}

\* How a supplyData call was set up.
ProviderTag(chatHubProxyProvider) ==
    IF chatHubProxyProvider THEN "provider" ELSE "no provider"

\* this.helpers.getChatHubProxy?.(...) of either revision of the node.
HelperProxy(h, scheme, nodeType, sessionId, memoryNodeId, hint, excludeCurrentFromMemory, ownerId) ==
    IF scheme = "parent"
    THEN GetChatHubProxyA(Workflow1, nodeType, sessionId, memoryNodeId, hint,
                          excludeCurrentFromMemory, ownerId)
    ELSE GetChatHubProxyB(Workflow1, nodeType, sessionId, memoryNodeId, hint,
                          ownerId, HandleUuid(h))

\* supplyData once it holds a memory service: ensureSession, up to the
\* answer of existsById, unless auto-creation is switched off.
SupplyWith(h, tag, r, autoCreateSession, title) ==
    /\ handles' = [handles EXCEPT ![h] = r.handle]
    /\ IF r.error = "none" /\ autoCreateSession
          /\ ~ExistsById(r.handle.sessionId, r.handle.ownerId)
       THEN /\ pc' = [pc EXCEPT ![h] = [at |-> "insert", title |-> title,
                                        outcome |-> "none"]]
            /\ last' = Idle
       ELSE /\ pc' = [pc EXCEPT ![h].outcome =
                         IF r.error = "none" /\ autoCreateSession THEN "ok"
                         ELSE pc[h].outcome]
            /\ last' = [Completed("supplyData", h, r.error)
                           EXCEPT !.result = <<tag>>]

\* MemoryChatHub.supplyData: without getChatHubProxy a node operation error,
\* else the proxy and the session.
SupplyData(h, scheme, chatHubProxyProvider, nodeType, sessionId, hint, ownerId, autoCreateSession, title) ==
    /\ FirstFree(h)
    /\ IF "getChatHubProxy" \notin getChatHubHelperFunctions(chatHubProxyProvider)
       THEN /\ last' = [Completed("supplyData", h, "module not available")
                           EXCEPT !.result = <<ProviderTag(chatHubProxyProvider)>>]
            /\ UNCHANGED <<handles, pc>>
       ELSE SupplyWith(h, ProviderTag(chatHubProxyProvider),
                       HelperProxy(h, scheme, nodeType, sessionId, 1, hint,
                                   FALSE, ownerId),
                       autoCreateSession,
                       IF scheme = "parent" THEN title ELSE "")
    /\ UNCHANGED <<messages, memory, sessions, uuidCtr, cleared>>

\* ------------------------------------------------ ChatHubMessageHistory
\* A LangChain message: its type and, as values, the fields the history
\* reads and sets; a field that does not apply is undefined.
Message(type, content, name, tool_calls, tool_call_id) ==
    [type |-> type, content |-> content, name |-> name,
     tool_calls |-> tool_calls, tool_call_id |-> tool_call_id]

\* A decoder that takes every stored content for plain text.
parseAIMessageContent_Raw(content) ==
    [content |-> content, toolCalls |-> ArrayValue(<<>>)]

\* The content field of a message built from a string, or from undefined.
ContentValue(content) ==
    IF content = UNDEFINED THEN UNDEFINED ELSE StringValue(content)

\* typeof c === 'string' ? c : JSON.stringify(c)
AsString(c) == IF IsStringValue(c) THEN StringOf(c) ELSE JsonStringify(c)

\* { content, toolCalls } of the parsed object with these members.
StoredAIMessageWithToolCalls(members) ==
    [content |-> AsString(MemberOf(members, "content")),
     toolCalls |-> Coalesce(MemberOf(members, "toolCalls"), ArrayValue(<<>>))]

\* parseAIMessageContent: { content, toolCalls } of the stored JSON, or the
\* raw content and no tool calls when reading it throws.
\* JSON.parse(content) throws unless the content is JSON, and reading a
\* property of null throws; the parsed value is kept as its text.
parseAIMessageContent(content) ==
    IF ~IsJson(content) \/ content = <<"null">>
    THEN [content |-> content, toolCalls |-> ArrayValue(<<>>)]
    ELSE StoredAIMessageWithToolCalls(Members(content))

\* parseToolMessageContent: the stored JSON, or the 'unknown' tool with the
\* raw content as its output.
parseToolMessageContent(content) ==
    IF ~IsJson(content)
    THEN ObjectValue(<<"toolCallId", "toolName", "toolInput", "toolOutput">>,
                     <<StringValue(<<"unknown">>), StringValue(<<"unknown">>),
                       ObjectValue(<<>>, <<>>), StringValue(content)>>)
    ELSE content

\* new ToolMessage({ content: JSON.stringify(toolData.toolOutput), ... })
ToolMessageOf(toolData) ==
    Message("tool", ContentValue(JsonStringify(MemberOf(toolData, "toolOutput"))),
            MemberOf(toolData, "toolName"), UNDEFINED,
            MemberOf(toolData, "toolCallId"))

\* convertToLangChainMessage(entry)
convertToLangChainMessage(entry) ==
    IF entry.role = "human"
    THEN Message("human", StringValue(entry.content), StringValue(entry.name),
                 UNDEFINED, UNDEFINED)
    ELSE IF entry.role = "ai"
    THEN LET aiData == parseAIMessageContent(entry.content)
         IN Message("ai", ContentValue(aiData.content), StringValue(entry.name),
                    aiData.toolCalls, UNDEFINED)
    ELSE IF entry.role = "tool"
    THEN ToolMessageOf(Members(parseToolMessageContent(entry.content)))
    ELSE Message("system", StringValue(entry.content), UNDEFINED, UNDEFINED,
                 UNDEFINED)

\* convertToLangChainMessage throws: the tool case reads toolData.toolOutput
\* outside any try, and parseToolMessageContent hands back null for the
\* content null.
ConvertThrows(entry) ==
    entry.role = "tool" /\ parseToolMessageContent(entry.content) = <<"null">>

\* entries.map(convertToLangChainMessage): the messages, or the error thrown.
ConvertEntries(entries) ==
    IF \E i \in 1..Len(entries) : ConvertThrows(entries[i])
    THEN [error |-> "TypeError", result |-> <<>>]
    ELSE [error |-> "none",
          result |-> [i \in 1..Len(entries) |->
                        convertToLangChainMessage(entries[i])]]

\* What getMessages ends with, given what getMemory ended with.
Converted(h, r, c) ==
    [op |-> "getMessages", h |-> h,
     error |-> IF r.error # "none" THEN r.error ELSE c.error,
     query |-> r.query, result |-> c.result, chain |-> r.chain,
     steps |-> r.steps]

GetMessagesOf(h, r) ==
    /\ handles' = [handles EXCEPT ![h] = r.hd]
    /\ last' = Converted(h, r, ConvertEntries(r.result))

\* getMessages(): getMemory, each entry converted.
GetMessages(h) ==
    /\ Live(h)
    /\ GetMessagesOf(h, GetMemoryOf(handles[h]))
    /\ UNCHANGED <<messages, memory, sessions, pc, uuidCtr, cleared>>

\* addMessage: the content as a string.
ContentString(message) == AsString(message.content)

\* addMessage: what is stored for an AI message.
StoredAIMessage(message) ==
    JsonStringify(ObjectValue(
        <<"content", "toolCalls">>,
        <<StringValue(ContentString(message)),
          Coalesce(message.tool_calls, ArrayValue(<<>>))>>))

\* An addMessage that stores every message that is neither an AI nor a tool
\* message as a human message.
AddMessageOf_HumanElse(h, message) ==
    IF message.type = "ai"
    THEN AddEntryOf("addAIMessage", h, "ai", StoredAIMessage(message), <<"AI">>)
    ELSE IF message.type = "tool"
    THEN AddEntryOf("addToolMessage", h, "tool",
             StringifyTool(StringOf(message.tool_call_id),
                 StringOf(Coalesce(message.name, StringValue(<<"unknown">>))),
                 ObjectValue(<<>>, <<>>), message.content),
             StringOf(Coalesce(message.name, StringValue(<<"unknown">>))))
    ELSE AddEntryOf("addHumanMessage", h, "human", ContentString(message), <<"User">>)

\* addMessage(message): the call it makes on the memory service.
AddMessageOf(h, message) ==
    IF message.type = "human"
    THEN AddEntryOf("addHumanMessage", h, "human", ContentString(message), <<"User">>)
    ELSE IF message.type = "ai"
    THEN AddEntryOf("addAIMessage", h, "ai", StoredAIMessage(message), <<"AI">>)
    ELSE IF message.type = "tool"
    THEN AddEntryOf("addToolMessage", h, "tool",
             StringifyTool(StringOf(message.tool_call_id),
                 StringOf(Coalesce(message.name, StringValue(<<"unknown">>))),
                 ObjectValue(<<>>, <<>>), message.content),
             StringOf(Coalesce(message.name, StringValue(<<"unknown">>))))
    ELSE /\ last' = Completed("addMessage", h, "none")
         /\ UNCHANGED <<messages, memory, sessions, handles, uuidCtr, cleared>>

\* addMessage(message)
AddMessage(h, message) ==
    /\ Live(h)
    /\ AddMessageOf(h, message)
    /\ UNCHANGED pc

\* addMessages: a loop that takes the messages in the order reversed.
NextMessage_Last(pending) == Len(pending)

\* addMessages: the loop takes the messages from the front of the list.
NextMessage(pending) == 1

\* addMessages(messages): the call; the loop body runs in AddMessagesNext.
AddMessages(h, list) ==
    /\ Live(h)
    /\ pc' = [pc EXCEPT ![h] = IF list = <<>> THEN @
                  ELSE [at |-> "addMessages", title |-> "",
                        outcome |-> @.outcome, pending |-> list]]
    /\ last' = Idle
    /\ UNCHANGED <<messages, memory, sessions, handles, uuidCtr, cleared>>

\* addMessages: one turn of the loop, await this.addMessage(message).  An
\* addMessage that throws ends the loop.
AddMessagesNext(h) ==
    /\ handles[h].scheme # "none"
    /\ pc[h].at = "addMessages"
    /\ LET i == NextMessage(pc[h].pending)
       IN /\ AddMessageOf(h, pc[h].pending[i])
          /\ pc' = [pc EXCEPT ![h] =
                 IF last'.error # "none" \/ Len(pc[h].pending) = 1
                 THEN [at |-> "idle", title |-> "", outcome |-> @.outcome]
                 ELSE [@ EXCEPT !.pending = RemoveAt(pc[h].pending, i)]]

\* ------------------------------------------------------- specifications
\* -- SpecGraph: one session, one handle of either revision, a branching log.
GraphAppend ==
    \E p \in 0..MaxGraphMsgs, r \in Roles, t \in {NULL} \cup TurnIds :
        /\ Len(messages) < MaxGraphMsgs
        /\ AppendMessage(1, p, r, t, Len(messages) + 1)

GraphAcquireA ==
    \E pm \in 0..MaxGraphMsgs, ex \in BOOLEAN :
        AcquireA(1, Workflow1, CHAT_HUB_MEMORY_TYPE, 1, 1, pm, ex, 1)

GraphAcquireB ==
    \E t \in {NULL} \cup TurnIds :
        AcquireB(1, Workflow1, CHAT_HUB_MEMORY_TYPE, 1, 1, t, 1)

GraphGetMemory == GetMemory(1)

NextGraph == GraphAppend \/ GraphAcquireA \/ GraphAcquireB \/ GraphGetMemory

SpecGraph == Init /\ [][NextGraph]_vars

\* -- SpecCycle: a short log of either revision with one corrupted pointer.
CycleAppend ==
    \E p \in 0..MaxCycleMsgs, r \in Roles, t \in {NULL} \cup TurnIds :
        /\ Len(messages) < MaxCycleMsgs
        /\ ValidForest
        /\ AppendMessage(1, p, r, t, Len(messages) + 1)

CycleCorrupt ==
    \E i \in 1..MaxCycleMsgs, p \in 1..MaxCycleMsgs : CorruptParent(i, p)

CycleAcquireA ==
    \E pm \in 0..MaxCycleMsgs, ex \in BOOLEAN :
        AcquireA(1, Workflow1, CHAT_HUB_MEMORY_TYPE, 1, 1, pm, ex, 1)

CycleAcquireB ==
    \E t \in {NULL} \cup TurnIds :
        AcquireB(1, Workflow1, CHAT_HUB_MEMORY_TYPE, 1, 1, t, 1)

CycleGetMemory == GetMemory(1)

NextCycle ==
    CycleAppend \/ CycleCorrupt \/ CycleAcquireA \/ CycleAcquireB \/ CycleGetMemory

SpecCycle == Init /\ [][NextCycle]_vars

\* -- SpecParent: the parent-message revision on a longer log.
ParentAppend ==
    \E p \in 0..MaxMsgs, r \in Roles :
        /\ Len(messages) < MaxMsgs
        /\ AppendMessage(1, p, r, NULL, Len(messages) + 1)

ParentAcquire ==
    \E pm \in 0..MaxMsgs, ex \in BOOLEAN :
        AcquireA(1, Workflow1, CHAT_HUB_MEMORY_TYPE, 1, 1, pm, ex, 1)

ParentGetMemory == GetMemory(1)

NextParent == ParentAppend \/ ParentAcquire \/ ParentGetMemory

SpecParent == Init /\ [][NextParent]_vars


\* -- SpecStore: two handles on (session, node) pairs sharing the memory table.
StoreAppend ==
    \E sid \in SessionIds, r \in Roles :
        /\ Len(messages) < MaxStoreMsgs
        /\ AppendMessage(sid, NULL, r, IF r = "ai" THEN 1 ELSE NULL,
                         Len(messages) + 1)

\* The first handle is on pair (1, 1); the second on any pair.
StorePair(h, sid, n) == h = 1 => (sid = 1 /\ n = 1)

StoreAcquireA ==
    \E h \in HandleIds, sid \in SessionIds, n \in NodeIds, pm \in {NULL, 1} :
        /\ StorePair(h, sid, n)
        /\ AcquireA(h, Workflow1, CHAT_HUB_MEMORY_TYPE, sid, n, pm, FALSE, 1)

StoreAcquireB ==
    \E h \in HandleIds, sid \in SessionIds, n \in NodeIds, t \in {NULL, 1} :
        /\ StorePair(h, sid, n)
        /\ AcquireB(h, Workflow1, CHAT_HUB_MEMORY_TYPE, sid, n, t, 1)

StoreGetMemory == \E h \in HandleIds : GetMemory(h)

StoreAddHuman == \E h \in HandleIds : AddHumanMessage(h, <<"hi">>)

StoreAddAI == \E h \in HandleIds : AddAIMessage(h, <<"hello">>)

StoreClear == \E h \in HandleIds : ClearMemory(h)

NextStore ==
    \/ StoreAppend
    \/ StoreAcquireA
    \/ StoreAcquireB
    \/ StoreGetMemory
    \/ StoreAddHuman
    \/ StoreAddAI
    \/ StoreClear

SpecStore == Init /\ [][NextStore]_vars

\* -- SpecHint: one handle of any kind, a log that starts empty, and writes.
HintAppend ==
    \E r \in Roles, t \in {NULL, 1} :
        /\ Len(messages) < MaxStoreMsgs
        /\ AppendMessage(1, NULL, r, t, Len(messages) + 1)

HintAcquireA ==
    \E pm \in {NULL, 1}, ex \in BOOLEAN :
        AcquireA(1, Workflow1, CHAT_HUB_MEMORY_TYPE, 1, 1, pm, ex, 1)

HintAcquireB ==
    \E t \in {NULL, 1} :
        AcquireB(1, Workflow1, CHAT_HUB_MEMORY_TYPE, 1, 1, t, 1)

HintGetMemory == GetMemory(1)

HintAddHuman == AddHumanMessage(1, <<"hi">>)

HintAddAI == AddAIMessage(1, <<"hello">>)

NextHint ==
    \/ HintAppend
    \/ HintAcquireA
    \/ HintAcquireB
    \/ HintGetMemory
    \/ HintAddHuman
    \/ HintAddAI

SpecHint == Init /\ [][NextHint]_vars

\* -- SpecSess: handles of two owners ensuring sessions, steps interleaved.
SessAcquireA ==
    \E h \in HandleIds, sid \in SessionIds, o \in OwnerIds :
        AcquireA(h, Workflow1, CHAT_HUB_MEMORY_TYPE, sid, 1, NULL, FALSE, o)

SessAcquireB ==
    \E h \in HandleIds, sid \in SessionIds, o \in OwnerIds :
        AcquireB(h, Workflow1, CHAT_HUB_MEMORY_TYPE, sid, 1, NULL, o)

SessCheck == \E h \in HandleIds, title \in {"", "My chat"} : EnsureSessionCheck(h, title)

SessInsert == \E h \in HandleIds, now \in TimeStamps : EnsureSessionInsert(h, now)

NextSess == SessAcquireA \/ SessAcquireB \/ SessCheck \/ SessInsert

SpecSess == Init /\ [][NextSess]_vars

\* -- SpecOps: requests of any node type and owner for one (session, node)
\* pair, and every operation of the first handle they return.
OpsAppend ==
    \E r \in Roles :
        /\ Len(messages) < MaxStoreMsgs
        /\ AppendMessage(1, NULL, r, IF r = "ai" THEN 1 ELSE NULL,
                         Len(messages) + 1)

OpsAcquireA ==
    \E h \in HandleIds, nt \in NodeTypes, pm \in {NULL, 1},
       o \in {NULL, EMPTY} \cup OwnerIds :
        AcquireA(h, Workflow1, nt, 1, 1, pm, FALSE, o)

OpsAcquireB ==
    \E h \in HandleIds, nt \in NodeTypes, t \in {NULL, 1},
       o \in {NULL, EMPTY} \cup OwnerIds :
        AcquireB(h, Workflow1, nt, 1, 1, t, o)

OpsGetOwnerId == \E h \in HandleIds : GetOwnerId(h)

OpsGetMemory == GetMemory(1)

OpsAddHuman == AddHumanMessage(1, <<"hi">>)

OpsAddAI == AddAIMessage(1, <<"hello">>)

OpsAddTool ==
    AddToolMessage(1, <<"call1">>, <<"calc">>, ObjectValue(<<>>, <<>>), StringValue(<<"4">>))

OpsClear == ClearMemory(1)

OpsCheck == EnsureSessionCheck(1, "My chat")

OpsInsert == EnsureSessionInsert(1, 1)

NextOps ==
    \/ OpsAppend
    \/ OpsAcquireA
    \/ OpsAcquireB
    \/ OpsGetOwnerId
    \/ OpsGetMemory
    \/ OpsAddHuman
    \/ OpsAddAI
    \/ OpsAddTool
    \/ OpsClear
    \/ OpsCheck
    \/ OpsInsert

SpecOps == Init /\ [][NextOps]_vars

\* -- SpecHist: a message history on one handle of any kind.
Call1 ==
    ObjectValue(<<"name", "args", "id">>,
                <<StringValue(<<"calc">>),
                  ObjectValue(<<"x">>, <<StringValue(<<"a", Quote, "b">>)>>),
                  StringValue(<<"call1">>)>>)

Call2 ==
    ObjectValue(<<"name", "args", "id">>,
                <<StringValue(<<"search">>), ObjectValue(<<>>, <<>>), UNDEFINED>>)

\* Text contents: empty, plain, and text that is itself the JSON of an
\* object with a content member.
AiContent(i) ==
    IF i = 1 THEN StringValue(<<>>)
    ELSE IF i = 2 THEN StringValue(<<"hello", ",", "world">>)
    ELSE StringValue(ObjectValue(<<"content">>, <<StringValue(<<"x">>)>>))

AiToolCalls(j) ==
    IF j = 1 THEN ArrayValue(<<>>) ELSE ArrayValue(<<Call1, Call2>>)

\* The AI messages with text content, by content and tool-call list.
AiMessage(i, j) ==
    Message("ai", AiContent(i), UNDEFINED, AiToolCalls(j), UNDEFINED)

\* The other messages: human, tool, system, and an AI message whose content
\* is a list of blocks.
OtherMessage(k) ==
    IF k = 1
    THEN Message("human", StringValue(<<"hi">>), UNDEFINED, UNDEFINED, UNDEFINED)
    ELSE IF k = 2
    THEN Message("tool", StringValue(<<"4">>), StringValue(<<"calc">>),
                 UNDEFINED, StringValue(<<"call1">>))
    ELSE IF k = 3
    THEN Message("system", StringValue(<<"be brief">>), UNDEFINED, UNDEFINED,
                 UNDEFINED)
    ELSE Message("ai", ArrayValue(<<StringValue(<<"block">>)>>), UNDEFINED,
                 ArrayValue(<<>>), UNDEFINED)

HistAppend ==
    \E r \in Roles :
        /\ Len(messages) < MaxStoreMsgs
        /\ AppendMessage(1, NULL, r, IF r = "ai" THEN 1 ELSE NULL,
                         Len(messages) + 1)

HistAcquireA ==
    \E pm \in {NULL, 1}, ex \in BOOLEAN :
        AcquireA(1, Workflow1, CHAT_HUB_MEMORY_TYPE, 1, 1, pm, ex, 1)

HistAcquireB ==
    \E t \in {NULL, 1} :
        AcquireB(1, Workflow1, CHAT_HUB_MEMORY_TYPE, 1, 1, t, 1)

HistAddMessage ==
    \/ \E i \in 1..3, j \in 1..2 : AddMessage(1, AiMessage(i, j))
    \/ \E k \in 1..4 : AddMessage(1, OtherMessage(k))

HistGetMessages == GetMessages(1)

HistClear == ClearMemory(1)

NextHist ==
    \/ HistAppend
    \/ HistAcquireA
    \/ HistAcquireB
    \/ HistAddMessage
    \/ HistGetMessages
    \/ HistClear

SpecHist == Init /\ [][NextHist]_vars

\* -- SpecDecode: a history read over a store whose entries may be damaged.
\* Contents that are no { content, toolCalls } / { toolCallId, ... } payload:
\* plain text, a cut-off object, a number, null, an object of another shape.
Damaged(k) ==
    IF k = 1 THEN <<"plain", "text">>
    ELSE IF k = 2 THEN <<"{", Quote, "content", Quote, ":">>
    ELSE IF k = 3 THEN <<"42">>
    ELSE IF k = 4 THEN <<"null">>
    ELSE ObjectValue(<<"foo">>, <<StringValue(<<"bar">>)>>)

DamagedKinds == 1..5

\* The stored content of an ai or tool entry is overwritten.
CorruptEntry(i, content) ==
    /\ i \in 1..Len(memory)
    /\ memory[i].role \in {"ai", "tool"}
    /\ memory' = [memory EXCEPT ![i].content = content]
    /\ last' = Idle
    /\ UNCHANGED <<messages, sessions, handles, pc, uuidCtr, cleared>>

DecodeAcquire == AcquireB(1, Workflow1, CHAT_HUB_MEMORY_TYPE, 1, 1, NULL, 1)

DecodeAddMessage ==
    \/ AddMessage(1, AiMessage(2, 1))
    \/ \E k \in 1..2 : AddMessage(1, OtherMessage(k))

DecodeCorrupt ==
    \E i \in 1..MaxMem, k \in DamagedKinds : CorruptEntry(i, Damaged(k))

DecodeGetMessages == GetMessages(1)

NextDecode ==
    \/ DecodeAcquire
    \/ DecodeAddMessage
    \/ DecodeCorrupt
    \/ DecodeGetMessages

SpecDecode == Init /\ [][NextDecode]_vars

\* -- SpecOrder: two handles of either revision on one (session, node) pair,
\* writing in turn, over a log of up to two messages.
OrderAppend ==
    \E p \in 0..MaxCycleMsgs, r \in Roles, t \in TurnIds :
        /\ Len(messages) < MaxCycleMsgs
        /\ AppendMessage(1, p, r, IF r = "ai" THEN t ELSE NULL, Len(messages) + 1)

OrderAcquireA ==
    \E h \in HandleIds, pm \in 0..MaxCycleMsgs :
        AcquireA(h, Workflow1, CHAT_HUB_MEMORY_TYPE, 1, 1, pm, FALSE, 1)

OrderAcquireB ==
    \E h \in HandleIds, t \in {NULL} \cup TurnIds :
        AcquireB(h, Workflow1, CHAT_HUB_MEMORY_TYPE, 1, 1, t, 1)

OrderGetMemory == \E h \in HandleIds : GetMemory(h)

OrderAddHuman == \E h \in HandleIds : AddHumanMessage(h, <<"hi">>)

OrderAddAI == \E h \in HandleIds : AddAIMessage(h, <<"hello">>)

NextOrder ==
    \/ OrderAppend
    \/ OrderAcquireA
    \/ OrderAcquireB
    \/ OrderGetMemory
    \/ OrderAddHuman
    \/ OrderAddAI

SpecOrder == Init /\ [][NextOrder]_vars

\* -- SpecHead: a branching log whose rows carry any createdAt, read by a
\* handle that names no head.
HeadAppend ==
    \E p \in 0..MaxGraphMsgs, r \in Roles, t \in TurnIds, c \in TimeStamps :
        /\ Len(messages) < MaxGraphMsgs
        /\ AppendMessage(1, p, r, IF r = "ai" THEN t ELSE NULL, c)

HeadAcquireA == AcquireA(1, Workflow1, CHAT_HUB_MEMORY_TYPE, 1, 1, NULL, FALSE, 1)

HeadAcquireB ==
    \E t \in TurnIds : AcquireB(1, Workflow1, CHAT_HUB_MEMORY_TYPE, 1, 1, t, 1)

HeadGetMemory == GetMemory(1)

NextHead == HeadAppend \/ HeadAcquireA \/ HeadAcquireB \/ HeadGetMemory

SpecHead == Init /\ [][NextHead]_vars

\* -- SpecTitle: sessions created for workflows with and without a chat
\* trigger agent name and a workflow name, with and without a title.
Names(i) == IF i = 1 THEN "" ELSE IF i = 2 THEN "  " ELSE "Bot"

WorkflowNames(j) == IF j = 1 THEN "" ELSE IF j = 2 THEN "  " ELSE "Support flow"

\* Workflow 3 * (i - 1) + j has the i-th trigger agent name and the j-th name.
WorkflowOf(id) ==
    [id |-> id, name |-> WorkflowNames(((id - 1) % 3) + 1),
     triggerAgentName |-> Names(((id - 1) \div 3) + 1)]

WorkflowIds == 1..9

Titles == {"", "  ", "My chat"}

TitleAcquireA ==
    \E w \in WorkflowIds, sid \in SessionIds :
        AcquireA(1, WorkflowOf(w), CHAT_HUB_MEMORY_TYPE, sid, 1, NULL, FALSE, 1)

TitleAcquireB ==
    \E w \in WorkflowIds, sid \in SessionIds :
        AcquireB(1, WorkflowOf(w), CHAT_HUB_MEMORY_TYPE, sid, 1, NULL, 1)

\* The parent-message revision is called with the node's session title, the
\* turn revision with nothing.
TitleCheck ==
    \E title \in Titles :
        /\ handles[1].scheme = "turn" => title = ""
        /\ EnsureSessionCheck(1, title)

TitleInsert == \E now \in TimeStamps : EnsureSessionInsert(1, now)

NextTitle == TitleAcquireA \/ TitleAcquireB \/ TitleCheck \/ TitleInsert

SpecTitle == Init /\ [][NextTitle]_vars

\* -- SpecSupply: memory nodes of either revision set up with and without
\* the chat-hub module, and what the handles they get then do.
SupplyA ==
    \E h \in HandleIds, provider \in BOOLEAN, sid \in SessionIds,
       o \in {NULL, 1}, auto \in BOOLEAN :
        SupplyData(h, "parent", provider, CHAT_HUB_MEMORY_TYPE, sid, NULL, o,
                   auto, "My chat")

SupplyB ==
    \E h \in HandleIds, provider \in BOOLEAN, sid \in SessionIds,
       o \in {NULL, 1}, auto \in BOOLEAN :
        SupplyData(h, "turn", provider, CHAT_HUB_MEMORY_TYPE, sid, 1, o,
                   auto, "")

SupplyInsert == \E h \in HandleIds : EnsureSessionInsert(h, 1)

SupplyAddHuman == \E h \in HandleIds : AddHumanMessage(h, <<"hi">>)

SupplyGetMemory == \E h \in HandleIds : GetMemory(h)

NextSupply ==
    \/ SupplyA
    \/ SupplyB
    \/ SupplyInsert
    \/ SupplyAddHuman
    \/ SupplyGetMemory

SpecSupply == Init /\ [][NextSupply]_vars

\* -- SpecRegen: two turn handles writing under their turn ids while the
\* log branches: every append is a child of any row there is.
RegenAppend ==
    \E p \in 0..MaxMsgs, r \in Roles, t \in TurnIds :
        /\ Len(messages) < MaxMsgs
        /\ AppendMessage(1, p, r, IF r = "ai" THEN t ELSE NULL, Len(messages) + 1)

RegenAcquire ==
    \E h \in HandleIds, t \in TurnIds :
        AcquireB(h, Workflow1, CHAT_HUB_MEMORY_TYPE, 1, 1, t, 1)

RegenAddAI == \E h \in HandleIds : AddAIMessage(h, <<"hello">>)

RegenGetMemory == \E h \in HandleIds : GetMemory(h)

NextRegen ==
    \/ RegenAppend
    \/ RegenAcquire
    \/ RegenAddAI
    \/ RegenGetMemory

SpecRegen == Init /\ [][NextRegen]_vars

\* -- SpecBatch: two message histories on one (session, node) pair, each
\* handed lists of messages; the log is empty, so every read is of the whole
\* node.
TextMessage(type, text) ==
    Message(type, StringValue(<<text>>), UNDEFINED,
            IF type = "ai" THEN ArrayValue(<<>>) ELSE UNDEFINED, UNDEFINED)

ToolResult(text) ==
    Message("tool", StringValue(<<text>>), StringValue(<<"calc">>), UNDEFINED,
            StringValue(<<"call1">>))

\* The lists handed to addMessages; every message has a text of its own.
BatchList(n) ==
    IF n = 1 THEN <<TextMessage("human", "q1"), TextMessage("ai", "a1")>>
    ELSE IF n = 2
    THEN <<TextMessage("human", "q2"), TextMessage("system", "s2"), ToolResult("t2")>>
    ELSE IF n = 3 THEN <<TextMessage("ai", "a3"), TextMessage("human", "q3")>>
    ELSE <<TextMessage("human", "q4")>>

BatchLists == 1..4

BatchAcquireA ==
    \E h \in HandleIds :
        AcquireA(h, Workflow1, CHAT_HUB_MEMORY_TYPE, 1, 1, NULL, FALSE, 1)

BatchAcquireB ==
    \E h \in HandleIds, t \in {NULL, 1} :
        AcquireB(h, Workflow1, CHAT_HUB_MEMORY_TYPE, 1, 1, t, 1)

BatchAddMessages == \E h \in HandleIds, n \in BatchLists : AddMessages(h, BatchList(n))

BatchNext == \E h \in HandleIds : AddMessagesNext(h)

BatchGetMemory == \E h \in HandleIds : GetMemory(h)

NextBatch ==
    \/ BatchAcquireA
    \/ BatchAcquireB
    \/ BatchAddMessages
    \/ BatchNext
    \/ BatchGetMemory

SpecBatch == Init /\ [][NextBatch]_vars

\* -- SpecRace: one handle of either revision whose calls overlap, while the
\* chat UI appends to the log.
RaceAppend ==
    \E p \in 0..MaxCycleMsgs, r \in Roles :
        /\ Len(messages) < MaxCycleMsgs
        /\ AppendMessage(1, p, r, IF r = "ai" THEN 1 ELSE NULL, Len(messages) + 1)

RaceAcquireA ==
    \E pm \in {NULL, 1} :
        AcquireA(1, Workflow1, CHAT_HUB_MEMORY_TYPE, 1, 1, pm, FALSE, 1)

RaceAcquireB ==
    \E t \in {NULL, 1} :
        AcquireB(1, Workflow1, CHAT_HUB_MEMORY_TYPE, 1, 1, t, 1)

RaceAddHuman == CallAdd(1, "addHumanMessage", "human", <<"hi">>, <<"User">>)

RaceAddAI == CallAdd(1, "addAIMessage", "ai", <<"hello">>, <<"AI">>)

RaceResolve == \E c \in 1..MaxMem : CallResolve(1, c)

RaceInsert == \E c \in 1..MaxMem : CallInsert(1, c)

RaceGetMemory == GetMemoryCall(1)

NextRace ==
    \/ RaceAppend
    \/ RaceAcquireA
    \/ RaceAcquireB
    \/ RaceAddHuman
    \/ RaceAddAI
    \/ RaceResolve
    \/ RaceInsert
    \/ RaceGetMemory

SpecRace == Init /\ [][NextRace]_vars

\* -- SpecTurn: two turn handles, with and without a turn id, writing and
\* reading while the log branches.
TurnAppend ==
    \E p \in 0..MaxGraphMsgs, r \in Roles, t \in TurnIds :
        /\ Len(messages) < MaxGraphMsgs
        /\ AppendMessage(1, p, r, IF r = "ai" THEN t ELSE NULL, Len(messages) + 1)

TurnAcquire ==
    \E h \in HandleIds, t \in {NULL} \cup TurnIds :
        AcquireB(h, Workflow1, CHAT_HUB_MEMORY_TYPE, 1, 1, t, 1)

TurnAddHuman == \E h \in HandleIds : AddHumanMessage(h, <<"hi">>)

TurnAddAI == \E h \in HandleIds : AddAIMessage(h, <<"hello">>)

TurnGetMemory == \E h \in HandleIds : GetMemory(h)

NextTurn ==
    \/ TurnAppend
    \/ TurnAcquire
    \/ TurnAddHuman
    \/ TurnAddAI
    \/ TurnGetMemory

SpecTurn == Init /\ [][NextTurn]_vars

\* -- SpecRound: tool messages added to a history and read back.
\* Tool messages with a string content: a number's text, the empty string,
\* and text that is itself JSON.
ToolSample(k) ==
    IF k = 1
    THEN Message("tool", StringValue(<<"4">>), StringValue(<<"calc">>),
                 UNDEFINED, StringValue(<<"call1">>))
    ELSE IF k = 2
    THEN Message("tool", StringValue(<<>>), StringValue(<<"search">>),
                 UNDEFINED, StringValue(<<"call2">>))
    ELSE Message("tool", StringValue(<<"{", Quote, "a", Quote, ":", "1", "}">>),
                 StringValue(<<"calc">>), UNDEFINED, StringValue(<<"call3">>))

ToolSamples == 1..3

RoundAppend ==
    \E r \in Roles :
        /\ Len(messages) < MaxStoreMsgs
        /\ AppendMessage(1, NULL, r, IF r = "ai" THEN 1 ELSE NULL,
                         Len(messages) + 1)

RoundAcquireA ==
    \E pm \in {NULL, 1}, ex \in BOOLEAN :
        AcquireA(1, Workflow1, CHAT_HUB_MEMORY_TYPE, 1, 1, pm, ex, 1)

RoundAcquireB ==
    \E t \in {NULL, 1} :
        AcquireB(1, Workflow1, CHAT_HUB_MEMORY_TYPE, 1, 1, t, 1)

RoundAddMessage == \E k \in ToolSamples : AddMessage(1, ToolSample(k))

RoundGetMessages == GetMessages(1)

NextRound ==
    \/ RoundAppend
    \/ RoundAcquireA
    \/ RoundAcquireB
    \/ RoundAddMessage
    \/ RoundGetMessages

SpecRound == Init /\ [][NextRound]_vars

\* The default specification: the memory table shared by two handles.
Next == NextStore

Spec == Init /\ [][Next]_vars


\* =================================================================== claims
\* What the formulas below read off the state.
LastHandle == handles[last.h]

LastPair == <<LastHandle.sessionId, LastHandle.memoryNodeId>>

QueryIds == Range(last.query.ids)

MessageIds == {messages[i].id : i \in 1..Len(messages)}

MessageOf(id) == messages[CHOOSE i \in 1..Len(messages) : messages[i].id = id]

ParentOf(id) == MessageOf(id).parentId

\* d is a proper descendant of a (in a valid forest).
RECURSIVE Descends(_, _)
Descends(d, a) ==
    LET p == ParentOf(d) IN p # NULL /\ (p = a \/ Descends(p, a))

Subtree(a) == {d \in MessageIds : d = a \/ Descends(d, a)}

ChainIds == {last.chain[i].id : i \in 1..Len(last.chain)}

\* The correlation id the scheme of the last handle takes from a message.
KeyOf(m) == IF LastHandle.scheme = "turn" THEN m.turnId ELSE m.id

\* M2 is an edit or retry of M: a later child of the same parent.
EditOf(M, M2) == M # M2 /\ M < M2 /\ ParentOf(M) = ParentOf(M2)

\* C1: in a valid forest, once M has been edited into a sibling M2 and the
\* path is resolved from M2 or below, the path holds neither M nor a
\* descendant of M, and every id getMemory filters by is taken from a message
\* of the path (in the parent-message scheme it is the id of no message of
\* M's subtree).
C1_EditedBranchExcluded ==
    (last.op = "getMemory" /\ last.error = "none" /\ last.chain # <<>>) =>
        LET head == last.chain[Len(last.chain)].id
        IN \A M \in MessageIds, M2 \in MessageIds :
              (EditOf(M, M2) /\ (head = M2 \/ Descends(head, M2))) =>
                 /\ ChainIds \cap Subtree(M) = {}
                 /\ \A k \in QueryIds :
                       \E i \in 1..Len(last.chain) :
                          /\ last.chain[i].id \notin Subtree(M)
                          /\ KeyOf(last.chain[i]) = k
                 /\ LastHandle.scheme = "parent" =>
                       QueryIds \cap Subtree(M) = {}

\* An AI message with a reply was retried; the turn handle read memory from
\* the retry, filtering by the retry's turn alone.
C1_Witness ==
    /\ last.op = "getMemory"
    /\ LastHandle.scheme = "turn"
    /\ last.query.kind = "byIds"
    /\ Len(messages) = 3
    /\ \E M \in MessageIds, M2 \in MessageIds, D \in MessageIds :
          /\ EditOf(M, M2)
          /\ Descends(D, M)
          /\ MessageOf(M).role = "ai"
          /\ MessageOf(M).turnId # NULL
          /\ MessageOf(M).turnId \notin QueryIds
          /\ last.chain[Len(last.chain)].id = M2

\* C7: in a valid forest every resolution ends without error within as many
\* steps as there are messages, and the path holds no message twice, starts
\* at a parent-less root and links each message to the one before it; with no
\* head given it ends at the message created last.
C7_PathRootToHead ==
    last.op = "getMemory" =>
        LET chain == last.chain
        IN /\ last.error = "none"
           /\ last.steps <= Len(messages)
           /\ \A i \in 1..Len(chain), j \in 1..Len(chain) :
                 i # j => chain[i].id # chain[j].id
           /\ chain # <<>> =>
                 /\ chain[1].parentId = NULL
                 /\ \A i \in 1..(Len(chain) - 1) :
                       chain[i + 1].parentId = chain[i].id
           /\ (LastHandle.scheme = "turn" /\ LastHandle.hint # NULL
                 /\ messages # <<>>) =>
                 /\ chain # <<>>
                 /\ \A i \in 1..Len(messages) :
                       messages[i].createdAt <= chain[Len(chain)].createdAt
           /\ (LastHandle.scheme = "parent" /\ LastHandle.hint \in MessageIds) =>
                 /\ chain # <<>>
                 /\ chain[Len(chain)].id = LastHandle.hint

\* A path of two messages resolved in a log of three: one message is on an
\* abandoned branch.
C7_Witness ==
    /\ last.op = "getMemory"
    /\ Len(messages) = 3
    /\ Len(last.chain) = 2
    /\ last.chain[1].id # last.chain[2].id

\* The active path of session 1 when no head is given.
ActivePath == BuildMessageHistory(GetManyBySessionId(1), NULL).chain

\* Positions of the path that carry a turn id of an AI message.
AiTurnPositions(path) ==
    {i \in 1..Len(path) : path[i].role = "ai" /\ path[i].turnId # NULL}

FirstPosition(path, t) ==
    CHOOSE i \in AiTurnPositions(path) :
        /\ path[i].turnId = t
        /\ \A j \in AiTurnPositions(path) : path[j].turnId = t => i <= j

\* C9: a turn handle with a hint filters by exactly the turn ids of the AI
\* messages of the active path: none missing, none from a human message or
\* from off the path, none null, each once, in path order; with none to
\* filter by it issues no query.
C9_TurnFilter ==
    (last.op = "getMemory" /\ LastHandle.scheme = "turn"
        /\ LastHandle.hint # NULL) =>
        LET ids == last.query.ids
            path == ActivePath
        IN /\ last.error = "none"
           /\ Range(ids) = {path[i].turnId : i \in AiTurnPositions(path)}
           /\ \A a \in 1..Len(ids), b \in 1..Len(ids) :
                 a < b => /\ ids[a] # ids[b]
                          /\ FirstPosition(path, ids[a]) < FirstPosition(path, ids[b])
           /\ last.query.kind = IF ids = <<>> THEN "none" ELSE "byIds"

\* Three AI messages in a row, two of them of one turn, a human message
\* aside: the filter holds the two turns once each.
C9_Witness ==
    /\ last.op = "getMemory"
    /\ LastHandle.scheme = "turn"
    /\ Len(last.query.ids) = 2
    /\ Len(ActivePath) = 3
    /\ \A i \in 1..3 : ActivePath[i].role = "ai" /\ ActivePath[i].turnId # NULL


\* The path to the parent message a parent-scheme handle was given.
PathToHint == BuildMessageHistory(GetManyBySessionId(LastHandle.sessionId),
                                  LastHandle.hint).chain

\* C3: a regenerating parent-scheme handle filters by every human message
\* of the path to its parent message except that parent message itself.
C3_RegenerationExcludesAnchor ==
    (last.op = "getMemory" /\ LastHandle.scheme = "parent"
        /\ LastHandle.hint # NULL /\ LastHandle.excludeCurrentFromMemory) =>
        /\ last.error = "none"
        /\ LastHandle.hint \notin QueryIds
        /\ \A i \in 1..Len(PathToHint) :
              (PathToHint[i].role = "human" /\ PathToHint[i].id # LastHandle.hint)
                 => PathToHint[i].id \in QueryIds
        /\ last.query.kind = IF last.query.ids = <<>> THEN "none" ELSE "byIds"

\* T1 (human 1, ai 2) -> T2 (human 3, ai 4); regenerating T2 filters by <<1>>.
C3_Witness ==
    /\ last.op = "getMemory"
    /\ LastHandle.excludeCurrentFromMemory
    /\ LastHandle.hint = 3
    /\ Len(messages) = 4
    /\ \A i \in 1..4 :
          /\ messages[i].parentId = i - 1
          /\ messages[i].role = IF i \in {1, 3} THEN "human" ELSE "ai"
    /\ last.query = [kind |-> "byIds", ids |-> <<1>>]

\* C10: a parent-scheme handle that is given a parent message and is not
\* regenerating always queries the store, and its filter holds that parent
\* message id exactly once.
C10_AnchorIncluded ==
    (last.op = "getMemory" /\ LastHandle.scheme = "parent"
        /\ LastHandle.hint # NULL /\ ~LastHandle.excludeCurrentFromMemory) =>
        /\ last.error = "none"
        /\ last.query.kind = "byIds"
        /\ Cardinality({i \in 1..Len(last.query.ids) :
                           last.query.ids[i] = LastHandle.hint}) = 1

\* The parent message given is an AI message below a human one: the chain's
\* human ids do not hold it and it is appended.
C10_Witness ==
    /\ last.op = "getMemory"
    /\ ~LastHandle.excludeCurrentFromMemory
    /\ LastHandle.hint \in MessageIds
    /\ MessageOf(LastHandle.hint).role = "ai"
    /\ Len(last.query.ids) = 2
    /\ last.query.ids[2] = LastHandle.hint

\* The message n parent pointers above id (NULL once the walk has left the log).
RECURSIVE NthAncestor(_, _)
NthAncestor(id, n) ==
    IF id \notin MessageIds THEN NULL
    ELSE IF n = 0 THEN id
    ELSE NthAncestor(ParentOf(id), n - 1)

\* The parent pointers from id never reach a root.
CycleFrom(id) == NthAncestor(id, Len(messages)) # NULL

LatestId == LatestMessageId(GetManyBySessionId(1))

\* C8: a resolution whose head reaches a cycle fails with the corruption
\* error after at most as many steps as there are messages, returning no
\* path, no entries and issuing no query; no completed resolution returns a
\* path whose head reaches a cycle.
C8_CycleFails ==
    last.op = "getMemory" =>
        /\ last.error \in {"none", "corrupt history"}
        /\ last.error = "corrupt history" =>
              /\ last.steps <= Len(messages)
              /\ last.chain = <<>>
              /\ last.result = <<>>
              /\ last.query = NoQuery
        /\ (last.error = "none" /\ last.chain # <<>>) =>
              ~CycleFrom(last.chain[Len(last.chain)].id)
        /\ (LastHandle.scheme = "turn" /\ LastHandle.hint # NULL
              /\ CycleFrom(LatestId)) => last.error = "corrupt history"
        /\ (LastHandle.scheme = "parent" /\ LastHandle.hint # NULL
              /\ CycleFrom(LastHandle.hint)) => last.error = "corrupt history"
        /\ (LastHandle.scheme = "parent" /\ LastHandle.hint = NULL) =>
              IF LastHandle.parentMessageIdResolved
              THEN \/ last.error = "corrupt history"
                   \/ ~CycleFrom(LastHandle.resolvedParentMessageId)
              ELSE last.error = "corrupt history" /\ CycleFrom(LatestId)

\* Two messages pointing at each other; getMemory of a turn handle failed
\* after two steps.
C8_Witness ==
    /\ last.op = "getMemory"
    /\ last.error = "corrupt history"
    /\ LastHandle.scheme = "turn"
    /\ Len(messages) = 2
    /\ messages[1].parentId = 2
    /\ messages[2].parentId = 1
    /\ last.steps = 2


\* The last getMemory ran against a session with no chat message.
OnEmptyLog ==
    /\ last.op = "getMemory"
    /\ GetManyBySessionId(LastHandle.sessionId) = <<>>

PairEntries(pair) == GetAllMemoryForNode(pair[1], pair[2])

C2_ReadsOwnPair ==
    last.op = "getMemory" =>
        \A k \in 1..Len(last.result) :
            \E i \in 1..Len(memory) :
                /\ memory[i].id = last.result[k].id
                /\ handles[memory[i].via].sessionId = LastHandle.sessionId
                /\ handles[memory[i].via].memoryNodeId = LastHandle.memoryNodeId

\* C2 (clears): a clearMemory step leaves every entry of another pair in
\* place, in order.
C2_ClearKeepsOthers ==
    last'.op = "clearMemory" =>
        LET hd == handles[last'.h]
            Others(mem) == SelectSeq(mem, LAMBDA e :
                ~(e.sessionId = hd.sessionId /\ e.memoryNodeId = hd.memoryNodeId))
        IN Others(memory') = Others(memory)

\* C2: memory is isolated per (session, node) pair.
C2_Isolation == []C2_ReadsOwnPair /\ [][C2_ClearKeepsOthers]_vars

\* A read that returned an entry while the table also holds an entry of
\* the same session under another node.
C2_Witness ==
    /\ last.op = "getMemory"
    /\ last.result # <<>>
    /\ \E i \in 1..Len(memory) :
          /\ memory[i].sessionId = LastHandle.sessionId
          /\ memory[i].memoryNodeId # LastHandle.memoryNodeId

\* C6 (read after clear): with the pair cleared and nothing appended to it
\* since, getMemory returns the empty sequence.
C6_ReadAfterClear ==
    /\ (last.op = "getMemory" /\ LastPair \in cleared) =>
          (last.result = <<>> /\ last.error = "none")
    /\ last.op = "clearMemory" => last.error = "none"

\* C6 (second clear): a clearMemory of a pair already cleared changes
\* nothing in the store.
C6_SecondClearNoop ==
    (last'.op = "clearMemory"
        /\ <<handles[last'.h].sessionId, handles[last'.h].memoryNodeId>> \in cleared)
        => memory' = memory

\* C6: clearMemory then getMemory is empty; clearMemory again is a no-op.
C6_ClearThenRead == []C6_ReadAfterClear /\ [][C6_SecondClearNoop]_vars

\* The only handle wrote every entry there ever was, cleared, and read.
C6_Witness ==
    /\ last.op = "getMemory"
    /\ LastPair \in cleared
    /\ handles[2] = NoHandle
    /\ uuidCtr = MaxMem
    /\ memory = <<>>

\* C4: two handles of one owner that have both finished ensureSession for
\* the same session id leave exactly one row for it, and neither call ended
\* in an error.
C4_RaceIsSilent ==
    \A h1 \in HandleIds, h2 \in HandleIds :
        (/\ h1 # h2
         /\ handles[h1].scheme # "none" /\ handles[h2].scheme # "none"
         /\ handles[h1].sessionId = handles[h2].sessionId
         /\ handles[h1].ownerId = handles[h2].ownerId
         /\ pc[h1].at = "idle" /\ pc[h2].at = "idle"
         /\ pc[h1].outcome # "none" /\ pc[h2].outcome # "none") =>
            /\ Cardinality({i \in 1..Len(sessions) :
                               sessions[i].id = handles[h1].sessionId}) = 1
            /\ pc[h1].outcome = "ok"
            /\ pc[h2].outcome = "ok"

\* The log of the session the last handle is bound to.
LastLog == GetManyBySessionId(LastHandle.sessionId)

\* The last getMemory took the filtered read: a turn handle with a hint, or a
\* parent-scheme handle whose parent message id is not null.
FilteredRead ==
    /\ last.op = "getMemory"
    /\ last.error = "none"
    /\ IF LastHandle.scheme = "turn" THEN LastHandle.hint # NULL
       ELSE LastHandle.resolvedParentMessageId # NULL

\* The correlation ids the filtered read of the last handle has to go by:
\* turn ids of the AI messages of the active path, or the human messages of
\* the path to the parent message with that message taken out (regenerating)
\* or put in (otherwise).
ExpectedIds ==
    IF LastHandle.scheme = "turn"
    THEN LET path == BuildMessageHistory(LastLog, NULL).chain
         IN {path[i].turnId : i \in AiTurnPositions(path)}
    ELSE LET pm == LastHandle.resolvedParentMessageId
             path == BuildMessageHistory(LastLog, pm).chain
             humans == {path[i].id : i \in {j \in 1..Len(path) : path[j].role = "human"}}
         IN IF LastHandle.excludeCurrentFromMemory THEN humans \ {pm}
            ELSE humans \cup {pm}

LogYields ==
    LET path == BuildMessageHistory(LastLog, NULL).chain
    IN IF LastHandle.scheme = "turn"
       THEN {path[i].turnId : i \in AiTurnPositions(path)}
       ELSE {path[i].id : i \in {j \in 1..Len(path) : path[j].role = "human"}}

C12_Step ==
    (last'.op = "getMemory" /\ last'.error = "none") =>
        LET hd == handles[last'.h]
            path == BuildMessageHistory(GetManyBySessionId(hd.sessionId), NULL).chain
        IN (last'.query.kind = "all") <=>
              IF hd.scheme = "turn" THEN hd.hint = NULL
              ELSE IF hd.parentMessageIdResolved
              THEN hd.resolvedParentMessageId = NULL
              ELSE \A i \in 1..Len(path) : path[i].role # "human"

HandleOps ==
    {"getOwnerId", "getMemory", "addHumanMessage", "addAIMessage",
     "addToolMessage", "clearMemory", "ensureSession"}

\* The node type and the owner id of the last getChatHubProxy request.
RequestNodeType == last.result[1]

RequestOwnerId == last.result[2]

\* C13 (outcome): a request from a node type off the allow-list ends in the
\* authorization error, whatever its owner id, returns no handle and has
\* sent no query to the memory store.
C13_Refused ==
    (last.op = "getChatHubProxy" /\ RequestNodeType # CHAT_HUB_MEMORY_TYPE) =>
        /\ last.error = "not allowed"
        /\ handles[last.h] = NoHandle
        /\ ~Live(last.h)
        /\ last.query = NoQuery

\* C13 (frame): a getChatHubProxy step leaves the three tables as they are,
\* and every operation that completes runs on a handle that was returned.
C13_Step ==
    /\ last'.op = "getChatHubProxy" =>
          (messages' = messages /\ memory' = memory /\ sessions' = sessions)
    /\ last'.op \in HandleOps => handles[last'.h] # NoHandle

\* C13: acquisition for a node type off the allow-list fails before any
\* handle is returned; no store is read or written and no operation of a
\* handle becomes usable.
C13_NotAllowedNode == []C13_Refused /\ [][C13_Step]_vars

\* An agent node asked for a handle, with a valid owner, while the store
\* holds entries and the log a message.
C13_Witness ==
    /\ last.op = "getChatHubProxy"
    /\ RequestNodeType = "agent"
    /\ RequestOwnerId \in OwnerIds
    /\ last.error = "not allowed"
    /\ memory # <<>>
    /\ messages # <<>>

\* C14 (outcome): a request of the allowed node type with an absent or
\* empty owner id ends in the owner error and returns no handle; a request
\* that succeeds returns a handle of the owner id given; every handle has an
\* owner id that is neither absent nor empty; getOwnerId returns it.
C14_OwnerChecked ==
    /\ (last.op = "getChatHubProxy" /\ RequestNodeType = CHAT_HUB_MEMORY_TYPE) =>
          IF RequestOwnerId \in {NULL, EMPTY}
          THEN last.error = "owner required" /\ handles[last.h] = NoHandle
          ELSE last.error = "none" /\ handles[last.h].ownerId = RequestOwnerId
    /\ \A h \in HandleIds :
          handles[h] # NoHandle => handles[h].ownerId \in OwnerIds
    /\ last.op = "getOwnerId" =>
          (last.error = "none" /\ last.result = <<LastHandle.ownerId>>)

\* C14 (life of the handle): no step changes the owner id of a handle.
C14_Step ==
    \A h \in HandleIds :
        handles[h] # NoHandle => handles'[h].ownerId = handles[h].ownerId

\* C14: no owner, no handle; the owner id of a handle is the one given at
\* acquisition for as long as the handle lives.
C14_OwnerRequired == []C14_OwnerChecked /\ [][C14_Step]_vars

\* The first handle, of owner 2, has written and ensured its session; a
\* second request of the allowed node type with the empty owner id was
\* refused.
C14_Witness ==
    /\ last.op = "getChatHubProxy"
    /\ last.h = 2
    /\ RequestNodeType = CHAT_HUB_MEMORY_TYPE
    /\ RequestOwnerId = EMPTY
    /\ last.error = "owner required"
    /\ handles[1].ownerId = 2
    /\ memory # <<>>
    /\ sessions # <<>>

AddOps == {"addHumanMessage", "addAIMessage", "addToolMessage"}

RoleOf(op) ==
    IF op = "addHumanMessage" THEN "human"
    ELSE IF op = "addAIMessage" THEN "ai" ELSE "tool"

\* The most recent human message of the active path of a session, NULL when
\* there is none.
LatestHumanId(sessionId) ==
    LET path == BuildMessageHistory(GetManyBySessionId(sessionId), NULL).chain
        humans == {i \in 1..Len(path) : path[i].role = "human"}
    IN IF humans = {} THEN NULL ELSE path[Max(humans)].id

\* The correlation key of handle hd before an add* call: its turn id; or
\* its parent message id, given, resolved earlier, or resolved now.
ResolvedKey(hd) ==
    IF hd.scheme = "turn" THEN hd.turnId
    ELSE IF hd.hint # NULL THEN hd.hint
    ELSE IF hd.parentMessageIdResolved THEN hd.resolvedParentMessageId
    ELSE LatestHumanId(hd.sessionId)

\* An add* step that completes appends one entry and keeps all the others;
\* the entry has a new id, the session, node and correlation key of the
\* handle and the role of the operation.
C15_Step ==
    (last'.op \in AddOps /\ last'.error = "none") =>
        LET hd == handles[last'.h]
            e == memory'[Len(memory')]
        IN /\ Len(memory') = Len(memory) + 1
           /\ SubSeq(memory', 1, Len(memory)) = memory
           /\ \A i \in 1..Len(memory) : memory[i].id # e.id
           /\ e.sessionId = hd.sessionId
           /\ e.memoryNodeId = hd.memoryNodeId
           /\ e.role = RoleOf(last'.op)
           /\ IF hd.scheme = "turn"
              THEN /\ e.turnId = ResolvedKey(hd)
                   /\ e.turnId # NULL
                   /\ hd.hint # NULL => e.turnId = hd.hint
              ELSE e.parentMessageId = ResolvedKey(hd)

\* C15: each completed addHumanMessage, addAIMessage or addToolMessage adds
\* exactly one entry with a fresh id, the handle's session, node and
\* resolved correlation key and its own role, and leaves the stored entries
\* unchanged.
C15_OneFreshEntry == [][C15_Step]_vars

\* A parent-scheme handle without hint wrote a tool entry after another
\* entry, stamped with the human message it found in the log.
C15_Witness ==
    /\ last.op = "addToolMessage"
    /\ last.error = "none"
    /\ LastHandle.scheme = "parent"
    /\ LastHandle.hint = NULL
    /\ Len(memory) = 2
    /\ memory[2].role = "tool"
    /\ memory[2].parentMessageId \in MessageIds
    /\ memory[1].id # memory[2].id

\* The handle of the step's operation is bound to the pair of entry e.
StepOnPairOf(e) ==
    /\ handles[last'.h].sessionId = e.sessionId
    /\ handles[last'.h].memoryNodeId = e.memoryNodeId

\* Every step keeps every stored entry, fields and order, unless the step
\* is a clearMemory on the entry's pair; no entry appears except as the one
\* entry a completed add* appends at the end.
C16_Step ==
    /\ \A i \in 1..Len(memory) :
          \/ last'.op = "clearMemory" /\ StepOnPairOf(memory[i])
          \/ \E j \in 1..Len(memory') :
                /\ memory'[j] = memory[i]
                /\ \A k \in 1..(i - 1) :
                      (\E m \in 1..Len(memory') : memory'[m] = memory[k]) =>
                         \E m \in 1..(j - 1) : memory'[m] = memory[k]
    /\ \A j \in 1..Len(memory') :
          \/ \E i \in 1..Len(memory) : memory[i] = memory'[j]
          \/ j = Len(memory') /\ last'.op \in AddOps
    /\ (last'.op \in AddOps /\ last'.error = "none") =>
          Len(memory') = Len(memory) + 1

\* No two stored entries share an id.
C16_UniqueIds ==
    \A i \in 1..Len(memory), j \in 1..Len(memory) :
        i # j => memory[i].id # memory[j].id

\* C16: the memory store is append-only except for clearMemory on the
\* entry's own pair, for every interleaving of add* and clearMemory calls of
\* the handles; every completed add's entry is there until such a clear.
C16_AppendOnly == []C16_UniqueIds /\ [][C16_Step]_vars

\* Two handles bound to one pair have each completed an add*: both entries
\* are stored.
C16_Witness ==
    /\ last.op \in AddOps
    /\ last.error = "none"
    /\ Len(memory) = 2
    /\ memory[1].via # memory[2].via
    /\ memory[1].role = memory[2].role
    /\ memory[1].sessionId = memory[2].sessionId
    /\ memory[1].memoryNodeId = memory[2].memoryNodeId

\* The step belongs to an operation of a handle: one completes, or an
\* ensureSession moves on.
HandleStep == last'.op \in HandleOps \/ pc' # pc

\* A handle's step leaves the chat-message table as it is; the session
\* table changes only when an ensureSession inserts, which adds one row
\* after the existing ones.
C17_Step ==
    /\ HandleStep => messages' = messages
    /\ sessions' # sessions =>
          /\ last'.op = "ensureSession"
          /\ pc[last'.h].at = "insert"
          /\ Len(sessions') = Len(sessions) + 1
          /\ SubSeq(sessions', 1, Len(sessions)) = sessions

\* C17: no operation of a handle creates, changes or deletes a chat
\* message; none but ensureSession changes the session table, and
\* ensureSession deletes and alters no session row.
C17_ReadOnlyTables == [][C17_Step]_vars

\* With a chat message, a session row and entries in place, the handle
\* cleared its memory: message and session row are still there.
C17_Witness ==
    /\ last.op = "clearMemory"
    /\ messages # <<>>
    /\ sessions # <<>>
    /\ uuidCtr = MaxMem
    /\ memory = <<>>

\* Rows of the session table with the given id.
RowsOf(sessionId) == {i \in 1..Len(sessions) : sessions[i].id = sessionId}

\* At most one row per session id.
C18_OneRowPerId == \A sid \in SessionIds : Cardinality(RowsOf(sid)) <= 1

\* A session row keeps its owner.
C18_Step ==
    \A i \in 1..Len(sessions) :
        \E j \in 1..Len(sessions') :
            /\ sessions'[j].id = sessions[i].id
            /\ sessions'[j].ownerId = sessions[i].ownerId

\* C18: the session table never holds two rows of one session id, whoever
\* called ensureSession for it and however the calls interleave, and the
\* owner of a session row never changes.
C18_SessionIdUnique == []C18_OneRowPerId /\ [][C18_Step]_vars

\* Handles of two owners have both run ensureSession for the same session
\* id to the end: the row is the first owner's, the other call failed.
C18_Witness ==
    /\ handles[1].scheme # "none" /\ handles[2].scheme # "none"
    /\ handles[1].sessionId = handles[2].sessionId
    /\ handles[1].ownerId # handles[2].ownerId
    /\ pc[1] = [at |-> "idle", title |-> "", outcome |-> "ok"]
    /\ pc[2] = [at |-> "idle", title |-> "", outcome |-> "error"]
    /\ Cardinality(RowsOf(handles[1].sessionId)) = 1
    /\ sessions[1].ownerId = handles[1].ownerId

\* An ensureSession step of a handle whose session row exists under its
\* owner completes at once and leaves the session table as it is: no insert
\* follows, and title, agentName, workflowId and lastMessageAt of the row
\* keep their values.
C19_Step ==
    \A h \in HandleIds :
        (/\ pc[h].at = "idle"
         /\ handles[h].scheme # "none"
         /\ ExistsById(handles[h].sessionId, handles[h].ownerId)
         /\ pc'[h] # pc[h] \/ (last'.op = "ensureSession" /\ last'.h = h)) =>
            /\ sessions' = sessions
            /\ pc'[h].at = "idle"
            /\ pc'[h].outcome = "ok"
            /\ last'.error = "none"

\* C19: run one after the other, a second ensureSession of a handle does
\* what the first left to do: nothing.
C19_EnsureIdempotent == [][C19_Step]_vars

\* The handle created its session under the title it was given and then
\* called ensureSession again: the call found the row and the row is as the
\* first call made it.
C19_Witness ==
    /\ last.op = "ensureSession"
    /\ last.result = <<"exists">>
    /\ LastHandle.scheme = "parent"
    /\ Len(sessions) = 1
    /\ sessions[1].id = LastHandle.sessionId
    /\ sessions[1].ownerId = LastHandle.ownerId
    /\ sessions[1].title = "My chat"
    /\ sessions[1].lastMessageAt = 2
    /\ handles[2] = NoHandle

\* The correlation key stamped on a stored entry.
EntryKey(e) == IF e.turnId # NULL THEN e.turnId ELSE e.parentMessageId

\* The read of the step covers the entry stored last: it is a whole-node
\* read, or its filter holds the entry's key.
ReadsNewest ==
    /\ last'.op = "getMessages"
    /\ last'.error = "none"
    /\ last'.h = last.h
    /\ \/ last'.query.kind = "all"
       \/ /\ last'.query.kind = "byIds"
          /\ EntryKey(memory[Len(memory)]) \in Range(last'.query.ids)

\* addMessage of the AI message m, then getMessages reading the entry: the
\* newest message returned is an AI message with m's content and m's
\* tool-call list.
C20_Step ==
    \A i \in 1..3, j \in 1..2 :
      LET m == AiMessage(i, j)
      IN
        (/\ last.op = "addAIMessage"
         /\ last.error = "none"
         /\ memory # <<>>
         /\ memory[Len(memory)].content = StoredAIMessage(m)
         /\ ReadsNewest) =>
            /\ last'.result # <<>>
            /\ LET r == last'.result[Len(last'.result)]
               IN /\ r.type = "ai"
                  /\ r.content = m.content
                  /\ r.tool_calls = m.tool_calls

\* C20: an AI message with text content and a tool-call list, stored by
\* addMessage and read back by getMessages, comes back with the same
\* content and the same tool-call list.
C20_AiRoundTrip == [][C20_Step]_vars

\* Two AI messages were stored, the later with JSON text as content and two
\* tool calls, and read back as the second of two messages.
C20_Witness ==
    /\ last.op = "getMessages"
    /\ Len(last.result) = 2
    /\ memory[Len(memory)].role = "ai"
    /\ last.result[2].type = "ai"
    /\ last.result[2].content = AiContent(3)
    /\ last.result[2].tool_calls = ArrayValue(<<Call1, Call2>>)

\* The content is the payload addMessage stores for an AI message: an object
\* whose content member is a string.
IsAIPayload(content) ==
    /\ IsJson(content)
    /\ content[1] = "{"
    /\ IsStringValue(Prop(content, "content"))

\* The content is the payload addToolMessage stores: an object that names
\* the tool and its call.
IsToolPayload(content) ==
    /\ IsJson(content)
    /\ content[1] = "{"
    /\ IsStringValue(Prop(content, "toolCallId"))
    /\ IsStringValue(Prop(content, "toolName"))

\* What the fallback hands back for an entry: the raw content as plain text
\* and no tool calls, or the tool 'unknown' with the raw content as output.
FallbackMessage(entry) ==
    IF entry.role = "ai"
    THEN Message("ai", StringValue(entry.content), StringValue(entry.name),
                 ArrayValue(<<>>), UNDEFINED)
    ELSE Message("tool", StringValue(JsonStringify(StringValue(entry.content))),
                 StringValue(<<"unknown">>), UNDEFINED,
                 StringValue(<<"unknown">>))

NeedsFallback(entry) ==
    \/ entry.role = "ai" /\ ~IsAIPayload(entry.content)
    \/ entry.role = "tool" /\ ~IsToolPayload(entry.content)

\* C21: getMessages over a whole-node read does not throw, returns a message
\* for every stored entry, and returns the fallback message for every ai or
\* tool entry whose content is not the structured payload.
C21_DecodingFallback ==
    (last.op = "getMessages" /\ last.query.kind = "all") =>
        /\ last.error = "none"
        /\ Len(last.result) = Len(memory)
        /\ \A i \in 1..Len(memory) :
              NeedsFallback(memory[i]) =>
                  last.result[i] = FallbackMessage(memory[i])

\* The part of C21 the code keeps: content that JSON.parse rejects.
C21_Unparseable ==
    (last.op = "getMessages" /\ last.query.kind = "all") =>
        /\ (\A i \in 1..Len(memory) : ~ConvertThrows(MapEntry(memory[i])))
              => (last.error = "none" /\ Len(last.result) = Len(memory))
        /\ last.error = "none" =>
              \A i \in 1..Len(memory) :
                  (memory[i].role \in {"ai", "tool"} /\ ~IsJson(memory[i].content))
                      => last.result[i] = FallbackMessage(memory[i])

\* A read over a cut-off ai payload next to a sound human entry.
C21_Witness ==
    /\ last.op = "getMessages"
    /\ last.error = "none"
    /\ Len(memory) = 2
    /\ memory[1].role = "human"
    /\ memory[2].role = "ai"
    /\ memory[2].content = Damaged(2)
    /\ last.result[1].type = "human"
    /\ last.result[2].content = StringValue(Damaged(2))

\* A tool entry holding null makes the whole read fail.
C21_ToolNullThrows ==
    /\ last.op = "getMessages"
    /\ last.error = "TypeError"
    /\ \E i \in 1..Len(memory) : memory[i].content = <<"null">>

\* The place of the entry with this id in the memory table.
PositionOf(id) == CHOOSE i \in 1..Len(memory) : memory[i].id = id

\* What the store hands back for the query the last getMemory made.
StoreAnswer ==
    IF last.query.kind = "all"
    THEN GetAllMemoryForNode(LastHandle.sessionId, LastHandle.memoryNodeId)
    ELSE IF last.query.kind = "byIds" /\ LastHandle.scheme = "turn"
    THEN GetMemoryByTurnIds(LastHandle.sessionId, LastHandle.memoryNodeId,
                            last.query.ids)
    ELSE IF last.query.kind = "byIds"
    THEN GetMemoryByParentMessageIds(LastHandle.sessionId,
                                     LastHandle.memoryNodeId, last.query.ids)
    ELSE <<>>

\* C22: what getMemory returns is in creation order, whatever the keys of
\* the entries and the order of the ids in the filter, and it is the answer
\* of the store entry for entry: nothing reordered, dropped or returned twice.
C22_CreationOrder ==
    (last.op = "getMemory" /\ last.error = "none") =>
        /\ \A a \in 1..Len(last.result), b \in 1..Len(last.result) :
              a < b => PositionOf(last.result[a].id) < PositionOf(last.result[b].id)
        /\ Len(last.result) = Len(StoreAnswer)
        /\ \A a \in 1..Len(last.result) :
              last.result[a].id = StoreAnswer[a].id

\* A filtered read returned two entries of different turns, the entry of
\* the turn named later in the filter first.
C22_Witness ==
    /\ last.op = "getMemory"
    /\ last.error = "none"
    /\ last.query.kind = "byIds"
    /\ Len(last.query.ids) = 2
    /\ Len(last.result) = 2
    /\ memory[1].turnId = last.query.ids[2]
    /\ memory[2].turnId = last.query.ids[1]
    /\ last.result[1].id = memory[1].id

\* The row at position i is the newest of the log: no row has a greater
\* createdAt, and of the rows with the same createdAt it was inserted last.
IsNewest(i) ==
    \A j \in 1..Len(messages) :
        \/ messages[j].createdAt < messages[i].createdAt
        \/ messages[j].createdAt = messages[i].createdAt /\ j <= i

NewestId == messages[CHOOSE i \in 1..Len(messages) : IsNewest(i)].id

\* The path of a turn handle's read ends at the newest row.
C23_TurnPath ==
    (/\ last.op = "getMemory" /\ last.error = "none"
     /\ LastHandle.scheme = "turn" /\ messages # <<>>) =>
        /\ last.chain # <<>>
        /\ last.chain[Len(last.chain)].id = NewestId

\* A parent-scheme handle given no parent resolves, on its first call, the
\* human message nearest the newest row on the way to the root.
C23_Step ==
    (/\ handles[1].scheme = "parent"
     /\ ~handles[1].parentMessageIdResolved
     /\ handles'[1].parentMessageIdResolved
     /\ messages # <<>>) =>
        LET k == handles'[1].resolvedParentMessageId
            onPath == {id \in MessageIds : id = NewestId \/ Descends(NewestId, id)}
            humans == {id \in onPath : MessageOf(id).role = "human"}
        IN IF humans = {} THEN k = NULL
           ELSE /\ k \in humans
                /\ \A id \in humans : id = k \/ Descends(k, id)

\* C23: with no head given the path is the one of the row with the greatest
\* createdAt, the later row on a tie; both revisions resolve from it.
C23_DefaultHead == []C23_TurnPath /\ [][C23_Step]_vars

\* After an edit the default path follows the newer branch: rows 2 and 3
\* are children of row 1, row 3 is newer, and the path read is 1, 3.
C23_Witness ==
    /\ last.op = "getMemory"
    /\ LastHandle.scheme = "turn"
    /\ Len(messages) = 3
    /\ messages[2].parentId = 1
    /\ messages[3].parentId = 1
    /\ messages[3].createdAt > messages[2].createdAt
    /\ Len(last.chain) = 2
    /\ last.chain[1].id = 1
    /\ last.chain[2].id = 3

\* The first of the names that is there: the trigger's agent name, the
\* workflow's name, the default.
NameChain(w) ==
    LET names == <<w.triggerAgentName, w.name>>
        there == {i \in 1..2 : names[i] \notin Blank}
    IN IF there = {} THEN "Workflow Chat"
       ELSE names[CHOOSE i \in there : \A j \in there : i <= j]

\* The row an ensureSession of handle 1 inserts has the passed title when
\* one is passed and the name chain of its workflow otherwise, and the name
\* chain as agentName.
C24_Step ==
    (pc[1].at = "insert" /\ Len(sessions') = Len(sessions) + 1) =>
        LET row == sessions'[Len(sessions')]
            w == WorkflowOf(handles[1].workflowId)
        IN /\ row.agentName = NameChain(w)
           /\ row.title = IF pc[1].title # "" THEN pc[1].title ELSE NameChain(w)

\* C24: the title of a created session is the first available of the passed
\* title, the trigger's non-blank agent name, the non-blank workflow name and
\* "Workflow Chat"; its agentName is the same chain without the title.
C24_TitleChain == [][C24_Step]_vars

\* A session was created with no title for a workflow whose trigger's agent
\* name is blank: title and agentName are the workflow name.
C24_Witness ==
    /\ last.op = "ensureSession"
    /\ last.result = <<"created">>
    /\ Len(sessions) = 1
    /\ WorkflowOf(sessions[1].workflowId).triggerAgentName = "  "
    /\ sessions[1].title = "Support flow"
    /\ sessions[1].agentName = "Support flow"

\* A supplyData set up without a proxy provider ends in the error that the
\* module is not available and leaves every table and every handle as it was.
C25_Step ==
    (last'.op = "supplyData" /\ last'.result = <<"no provider">>) =>
        /\ getChatHubHelperFunctions(FALSE) = {}
        /\ last'.error = "module not available"
        /\ UNCHANGED <<messages, memory, sessions, handles, pc, uuidCtr, cleared>>

\* C25: with the module disabled the helper exposes no getChatHubProxy and
\* supplyData fails saying the module is not available; no session is
\* created and no memory operation is issued.
C25_ModuleDisabled == [][C25_Step]_vars

\* A second node is set up without the module after a first got its handle
\* and its session: it fails, and the tables are those the first left.
C25_Witness ==
    /\ last.op = "supplyData"
    /\ last.h = 2
    /\ last.error = "module not available"
    /\ handles[1].scheme # "none"
    /\ handles[2] = NoHandle
    /\ Len(sessions) = 1
    /\ Len(memory) = 1

\* ------------------------------------------------------------------- C26
\* The newest of the first n rows of the log: the log as it was when it had
\* n rows (rows are only ever appended).
NewestOf(n) ==
    messages[CHOOSE i \in 1..n :
        \A j \in 1..n :
            \/ messages[j].createdAt < messages[i].createdAt
            \/ messages[j].createdAt = messages[i].createdAt /\ j <= i].id

\* The path that ends at row head, and the turn ids its AI messages carry.
PathOf(head) == {id \in MessageIds : id = head \/ Descends(head, id)}

TurnIdsOn(head) ==
    {MessageOf(id).turnId : id \in {i \in PathOf(head) : MessageOf(i).role = "ai"}}

\* The active path: the newest row and its ancestors.
OnActivePath(id) == messages # <<>> /\ id \in PathOf(NewestId)

\* The turn ids the AI messages of the active path carry.
ActiveTurnIds == IF messages = <<>> THEN {} ELSE TurnIdsOn(NewestId)

\* Turn t was superseded when the log had n rows: an AI message carrying t
\* had a later sibling, an AI message of another turn, on the active path of
\* that time, and no AI message of that path carried t.
SupersededAt(n, t) ==
    /\ t \notin TurnIdsOn(NewestOf(n))
    /\ \E M \in 1..n, M2 \in 1..n :
          /\ EditOf(messages[M].id, messages[M2].id)
          /\ messages[M].role = "ai" /\ messages[M].turnId = t
          /\ messages[M2].role = "ai" /\ messages[M2].turnId \notin {NULL, t}
          /\ messages[M2].id \in PathOf(NewestOf(n))

\* Turn t is superseded now.
Superseded(t) == messages # <<>> /\ SupersededAt(Len(messages), t)

EntryOf(id) == memory[CHOOSE i \in 1..Len(memory) : memory[i].id = id]

\* The last operation was a getMemory of a turn handle with a turn hint that
\* returned an entry stamped t.
ReturnsStamp(t) ==
    /\ last.op = "getMemory"
    /\ LastHandle.scheme = "turn"
    /\ LastHandle.hint # NULL
    /\ \E k \in 1..Len(last.result) : EntryOf(last.result[k].id).turnId = t

\* C26 as stated: once turn t has been superseded, at whatever length of the
\* log, no getMemory with a turn hint returns an entry stamped t, whatever
\* was appended to the log since.
C26_SupersededForever ==
    \A t \in TurnIds :
        (\E n \in 1..Len(messages) : SupersededAt(n, t)) => ~ReturnsStamp(t)

\* C26: while turn t is superseded (no AI message of the active path carries
\* it), a getMemory with a turn hint returns no entry stamped t.
C26_SupersededOffPath ==
    \A t \in TurnIds : Superseded(t) => ~ReturnsStamp(t)

\* Turn 1 is superseded by turn 2, the store holds entries of both turns, and
\* the read returns the entries of turn 2 alone.
C26_Witness ==
    /\ Superseded(1)
    /\ last.op = "getMemory"
    /\ LastHandle.hint # NULL
    /\ \E i \in 1..Len(memory) : memory[i].turnId = 1
    /\ last.result # <<>>
    /\ \A k \in 1..Len(last.result) : EntryOf(last.result[k].id).turnId = 2

\* The superseded branch is continued: turn 1 had a sibling of turn 2, a
\* later row was appended below the message of turn 1, and the read returns
\* the entries of turn 1 again.
C26_BranchResumed ==
    /\ ReturnsStamp(1)
    /\ \E M \in MessageIds, M2 \in MessageIds :
          /\ EditOf(M, M2)
          /\ MessageOf(M).role = "ai" /\ MessageOf(M).turnId = 1
          /\ MessageOf(M2).role = "ai" /\ MessageOf(M2).turnId = 2
          /\ Descends(NewestId, M)
          /\ NewestId > M2

\* ------------------------------------------------------------------- C27
\* The text that tells the message at position i of list n from the others.
TextOf(n, i) == StringOf(BatchList(n)[i].content)[1]

\* The positions of list n whose message addMessage stores.
StoredPositions(n) ==
    {i \in 1..Len(BatchList(n)) : BatchList(n)[i].type \in {"human", "ai", "tool"}}

\* Entry e was written through handle h for the message at position i of
\* list n.
WrittenFor(e, h, n, i) ==
    /\ e.via = h
    /\ e.role = BatchList(n)[i].type
    /\ TextOf(n, i) \in Range(e.content)

\* In the sequence of entries es, an entry written for a message of a list
\* comes after an entry written for every message before it in the list.
InListOrder(es) ==
    \A h \in HandleIds, n \in BatchLists :
        \A i \in StoredPositions(n), j \in StoredPositions(n) :
            i < j =>
                \A p \in 1..Len(es) :
                    WrittenFor(es[p], h, n, j) =>
                        \E q \in 1..(p - 1) : WrittenFor(es[q], h, n, i)

\* C27: addMessages stores the messages in list order, one at a time: in the
\* table, and in what getMemory returns, the entry of a message comes after
\* the entries of the messages before it in the list.
C27_ListOrder ==
    /\ InListOrder(memory)
    /\ (last.op = "getMemory" /\ last.error = "none") =>
           InListOrder([k \in 1..Len(last.result) |-> EntryOf(last.result[k].id)])

\* The list human, AI went through handle 1 and a read returns the human
\* entry and then the AI entry.
C27_Witness ==
    /\ pc[1].at = "idle"
    /\ last.op = "getMemory"
    /\ Len(last.result) = 2
    /\ WrittenFor(EntryOf(last.result[1].id), 1, 1, 1)
    /\ WrittenFor(EntryOf(last.result[2].id), 1, 1, 2)

\* Between the two appends of a list the other handle reads the human entry
\* alone.
C27_HumanObservedFirst ==
    /\ pc[1].at = "addMessages"
    /\ Len(pc[1].pending) = 1
    /\ last.op = "getMemory" /\ last.h = 2
    /\ Len(last.result) = 1
    /\ WrittenFor(EntryOf(last.result[1].id), 1, 1, 1)

\* ------------------------------------------------------------------- C28
\* The correlation key an entry carries.
StampOf(e) == <<e.parentMessageId, e.turnId>>

\* C28 as stated: all entries written through one handle carry the same
\* correlation key, whatever the interleaving of the handle's calls with each
\* other and with appends to the log.
C28_OneKeyPerHandle ==
    \A i \in 1..Len(memory), j \in 1..Len(memory) :
        memory[i].via = memory[j].via => StampOf(memory[i]) = StampOf(memory[j])

\* C28 as stated, the resolution: a handle whose parent id is resolved
\* keeps the value it resolved.
C28_Step ==
    \A h \in HandleIds :
        (handles[h].scheme = "parent" /\ handles[h].parentMessageIdResolved) =>
            /\ handles'[h].parentMessageIdResolved
            /\ handles'[h].resolvedParentMessageId = handles[h].resolvedParentMessageId

C28_ResolvedOnce == [][C28_Step]_vars

\* What holds: the entries of a turn handle, and of a parent-scheme handle
\* that was given its parent id, carry one key.
C28_GivenKey ==
    \A i \in 1..Len(memory), j \in 1..Len(memory) :
        (/\ memory[i].via = memory[j].via
         /\ \/ handles[memory[i].via].scheme = "turn"
            \/ handles[memory[i].via].hint # NULL) =>
            StampOf(memory[i]) = StampOf(memory[j])

\* Two entries of one parent-scheme handle under two parent ids.
C28_SplitTurn ==
    /\ Len(memory) = 2
    /\ memory[1].via = memory[2].via
    /\ handles[memory[1].via].scheme = "parent"
    /\ memory[1].parentMessageId # memory[2].parentMessageId

\* ------------------------------------------------------------------- C29
\* The entries a read returned, as rows of the table.
ReturnedEntries == {EntryOf(last.result[k].id) : k \in 1..Len(last.result)}

\* C29: a getMemory of a turn handle with a turn hint returns only entries
\* whose turn id an AI message of the active path carries; the entries of a
\* turn still in flight and those of manual executions are not among them.
C29_OffPathNeverReturned ==
    (/\ last.op = "getMemory"
     /\ LastHandle.scheme = "turn"
     /\ LastHandle.hint # NULL) =>
        \A e \in ReturnedEntries : e.turnId \in ActiveTurnIds

\* The active path holds an AI message of another turn; the store holds an
\* entry the reading handle wrote under its own turn id and an entry a
\* manual execution wrote under a minted one; the read queries the store and
\* returns neither.
C29_Witness ==
    /\ last.op = "getMemory"
    /\ LastHandle.hint # NULL
    /\ last.query.kind = "byIds"
    /\ ActiveTurnIds # {}
    /\ LastHandle.turnId \notin ActiveTurnIds
    /\ \E i \in 1..Len(memory) :
          memory[i].via = last.h /\ memory[i].turnId = LastHandle.turnId
    /\ \E i \in 1..Len(memory) :
          /\ handles[memory[i].via].hint = NULL
          /\ memory[i].turnId = handles[memory[i].via].turnId
          /\ memory[i].turnId \notin TurnIds
    /\ last.result = <<>>

\* ------------------------------------------------------------------- C30
\* What a getMemory of handle state hd answers, the closure state aside.
AnswerOf(hd) ==
    LET r == GetMemoryOf(hd)
    IN [error |-> r.error, query |-> r.query, result |-> r.result,
        chain |-> r.chain]

LastAnswer ==
    [error |-> last.error, query |-> last.query, result |-> last.result,
     chain |-> last.chain]

\* Both slots hold turn handles with a turn hint on one (session, node).
HintedPair(g, h) ==
    /\ handles[g].scheme = "turn" /\ handles[h].scheme = "turn"
    /\ handles[g].hint # NULL /\ handles[h].hint # NULL
    /\ handles[g].sessionId = handles[h].sessionId
    /\ handles[g].memoryNodeId = handles[h].memoryNodeId

\* On one log and one store, two turn handles with a hint hold the same
\* answer, and its path ends at the newest row, not at a row of the hint.
C30_SameAnswer ==
    \A g \in HandleIds, h \in HandleIds :
        HintedPair(g, h) =>
            /\ AnswerOf(handles[g]) = AnswerOf(handles[h])
            /\ AnswerOf(handles[h]).chain # <<>> =>
                   AnswerOf(handles[h]).chain[Len(AnswerOf(handles[h]).chain)].id = NewestId

\* A getMemory of a turn handle with a hint returns what the other handle
\* with a hint would, and two reads in a row return the same.
C30_Step ==
    (/\ last'.op = "getMemory"
     /\ handles[last'.h].scheme = "turn"
     /\ handles[last'.h].hint # NULL) =>
        /\ \A g \in HandleIds :
               HintedPair(g, last'.h) =>
                   [error |-> last'.error, query |-> last'.query,
                    result |-> last'.result, chain |-> last'.chain]
                       = AnswerOf(handles[g])
        /\ (/\ last.op = "getMemory"
            /\ HintedPair(last.h, last'.h)) =>
               [error |-> last'.error, query |-> last'.query,
                result |-> last'.result, chain |-> last'.chain] = LastAnswer

\* C30: with a turn hint, the answer of getMemory does not depend on which
\* turn id the hint is; the hint is never the head of the path.
C30_HintIndependent == []C30_SameAnswer /\ [][C30_Step]_vars

\* Handles with the turn ids 1 and 2; the handle of turn 2 reads and is
\* returned the entry stamped with turn 1, as the handle of turn 1 would be,
\* while a row of turn 2 lies off the path.
C30_Witness ==
    /\ handles[1].hint # NULL /\ handles[2].hint # NULL
    /\ handles[1].hint # handles[2].hint
    /\ last.op = "getMemory"
    /\ last.result # <<>>
    /\ LastHandle.turnId \notin ActiveTurnIds
    /\ \E i \in 1..Len(messages) : messages[i].turnId = LastHandle.turnId
    /\ AnswerOf(handles[1]) = LastAnswer
    /\ AnswerOf(handles[2]) = LastAnswer

\* ------------------------------------------------------------------- C31
\* The entry stored last is the one addMessage writes for tool message m,
\* and the read of the step covers it.
ToolStoredAndRead(m) ==
    /\ last.op = "addToolMessage"
    /\ last.error = "none"
    /\ memory # <<>>
    /\ memory[Len(memory)].role = "tool"
    /\ memory[Len(memory)].content =
           ObjectValue(<<"toolCallId", "toolName", "toolInput", "toolOutput">>,
                       <<m.tool_call_id, m.name, ObjectValue(<<>>, <<>>), m.content>>)
    /\ ReadsNewest

\* addMessage of the tool message m, then getMessages reading the entry: the
\* newest message returned is a tool message with m's tool_call_id, m's name
\* and m's content.
C31_Step ==
    \A k \in ToolSamples :
        ToolStoredAndRead(ToolSample(k)) =>
            /\ last'.result # <<>>
            /\ LET r == last'.result[Len(last'.result)]
               IN /\ r.type = "tool"
                  /\ r.tool_call_id = ToolSample(k).tool_call_id
                  /\ r.name = ToolSample(k).name
                  /\ r.content = ToolSample(k).content

\* C31 as stated: a tool message with a string content, stored by addMessage
\* and read back by getMessages, comes back with the same tool_call_id, name
\* and content.
C31_ToolRoundTrip == [][C31_Step]_vars

\* What holds: the tool_call_id and the name come back, and the content
\* comes back as the JSON text of the string, in quotes and escaped.
C31_IdNameStep ==
    \A k \in ToolSamples :
        ToolStoredAndRead(ToolSample(k)) =>
            /\ last'.result # <<>>
            /\ LET r == last'.result[Len(last'.result)]
               IN /\ r.type = "tool"
                  /\ r.tool_call_id = ToolSample(k).tool_call_id
                  /\ r.name = ToolSample(k).name
                  /\ r.content = StringValue(ToolSample(k).content)

C31_ToolContentQuoted == [][C31_IdNameStep]_vars

\* The tool message with content 4 was stored and read back with a content
\* of three characters: quote, 4, quote.
C31_QuotedContent ==
    /\ last.op = "getMessages"
    /\ last.result # <<>>
    /\ memory # <<>>
    /\ Prop(memory[Len(memory)].content, "toolOutput") = StringValue(<<"4">>)
    /\ last.result[Len(last.result)].type = "tool"
    /\ StringOf(last.result[Len(last.result)].content) = <<Quote, "4", Quote>>

\* ------------------------------------------------------------------- C32
\* The add operation that matches a message type.
OpFor(type) ==
    IF type = "human" THEN "addHumanMessage"
    ELSE IF type = "ai" THEN "addAIMessage"
    ELSE "addToolMessage"

\* One addMessage of the loop of handle h, for the message at the front of
\* the pending list: a human, AI or tool message makes the one matching add
\* call, which appends one entry of that role; any other message ends
\* without error and changes no table.
C32_Step ==
    \A h \in HandleIds :
        (pc[h].at = "addMessages" /\ pc'[h] # pc[h]) =>
            LET m == pc[h].pending[1]
            IN IF m.type \in {"human", "ai", "tool"}
               THEN /\ last'.op = OpFor(m.type)
                    /\ last'.h = h
                    /\ last'.error = "none"
                    /\ uuidCtr' = uuidCtr + 1
                    /\ Len(memory') = Len(memory) + 1
                    /\ SubSeq(memory', 1, Len(memory)) = memory
                    /\ memory'[Len(memory')].role = m.type
                    /\ memory'[Len(memory')].via = h
               ELSE /\ last'.op = "addMessage"
                    /\ last'.h = h
                    /\ last'.error = "none"
                    /\ UNCHANGED <<memory, messages, sessions, handles, uuidCtr>>

\* C32: addMessage of a message that is neither human, AI nor tool ends
\* without error and leaves the store as it was; a human, AI or tool message
\* makes exactly one call of the matching add operation.
C32_OtherTypesIgnored == [][C32_Step]_vars

\* The system message of the list human, system, tool has been through
\* addMessage: the call ended without error, the store holds the human entry
\* alone and the tool message is still pending.
C32_Witness ==
    /\ last.op = "addMessage"
    /\ last.error = "none"
    /\ pc[last.h].at = "addMessages"
    /\ pc[last.h].pending = <<ToolResult("t2")>>
    /\ Len(memory) = 1
    /\ memory[1].role = "human"
    /\ memory[1].via = last.h

====
